---- MODULE Spec2Model ----
(***************************************************************************)
(* Brand map (scripts.js): the brand list, the filter predicate, the       *)
(* hierarchy built by prepareRadialData and the visibility annotations     *)
(* computed by updateRadialView.                                           *)
(*                                                                         *)
(* JavaScript strings are TLA+ strings; Chars gives the characters of each *)
(* string of the model's universe, so that toLowerCase, includes and       *)
(* localeCompare are computed character by character.  A missing property  *)
(* (JavaScript undefined) is the value undefined.  Opacities are kept in   *)
(* tenths (1 -> 10, 0.2 -> 2, 0.1 -> 1).                                   *)
(* The cluster layout assigns each node an angle and a radius, kept as     *)
(* exact fractions; the rotation handlers keep the rotation in degrees.    *)
(***************************************************************************)
EXTENDS Integers, Sequences, FiniteSets, TLC

VARIABLES
    allBrands,         \* the global brand list (records, mutated in place)
    searchInput,       \* #search-input .value, as typed
    regionFilter,      \* #region-filter .value
    currentView,       \* 'radial' | 'list'
    radialSvg,         \* TRUE once initializeRadialView has created the svg
    radialData,        \* the hierarchy bound to the drawn nodes
    filteredNodes,     \* paths of the .node elements carrying class 'filtered'
    linkOpacity,       \* path of a link's target node -> opacity in tenths
    visibleNodeNames,  \* the set computed by the last updateRadialView
    lastFiltered,      \* indices (into allBrands) passed to the last updateRadialView
    noResultsMsgs,     \* number of .no-results elements inside #radial-view
    svgOpacity,        \* style opacity of the svg, in tenths
    listItems,         \* indices shown by the last updateListView
    rafPending,        \* queued requestAnimationFrame callbacks
    console,           \* diagnostics written with console.warn / console.error
    containerRect,     \* getBoundingClientRect() of #radial-diagram
    svgSize,           \* the width and height attributes of the svg
    rotation,          \* the global rotation, in degrees
    lastGestureRotation,  \* the rotation captured when a gesture starts
    lastTouchAngle,    \* <<angle>> captured by touchstart on the current svg, << >> for null
    errorIn,           \* the element holding the 'Error Loading Data' block, or "none"
    pinnedSource,      \* paths of the .node elements carrying class 'tooltip-pinned-source'
    startTimer,        \* TRUE while the 1500 ms timer of DOMContentLoaded is pending
    hideTimers,        \* pending 500 ms timers of hideLoadingScreen
    errTimers,         \* pending 500 ms timers of the catch handler
    fetchState,        \* "idle" | "pending" | "ok" | "failed": fetch('brands.json')
    brandsJson,        \* the list brands.json holds
    loadingOpacity,    \* style opacity of #loading-screen, in tenths
    loadingDisplay,    \* style display of #loading-screen
    mainHidden,        \* #main-content carries class 'hidden'
    tooltipPinned,     \* the tooltip carries class 'pinned'
    tooltipVisible,    \* the tooltip carries class 'visible'
    tooltipContent,    \* <<content>> of tooltip.innerHTML, << >> while empty
    tooltipPos,        \* what style.left / style.top were computed from
    timers,            \* pending setTimeout timers of the debounced resize listener
    timeout,           \* the closure variable of debounce: id of the last timer
    resizeLog,         \* what has been observed of the resize listener
    walk               \* where the ancestor-walk variant of updateRadialView stands

\* the page around the views: timers, fetch, loading screen
pageVars == <<startTimer, hideTimers, errTimers, fetchState, brandsJson,
              loadingOpacity, loadingDisplay, mainHidden>>

\* the tooltip element
tipVars == <<tooltipPinned, tooltipVisible, tooltipContent, tooltipPos>>

\* the debounced resize listener
debVars == <<timers, timeout, resizeLog>>

vars == <<allBrands, searchInput, regionFilter, currentView, radialSvg,
          radialData, filteredNodes, linkOpacity, visibleNodeNames,
          lastFiltered, noResultsMsgs, svgOpacity, listItems, rafPending,
          console, containerRect, svgSize, rotation, lastGestureRotation,
          lastTouchAngle, errorIn, pinnedSource, pageVars, tipVars, debVars, walk>>

-----------------------------------------------------------------------------
(* Bounds *)

MaxBrands == 3
MaxRaf == 1
MaxViewBrands == 1
MaxRotation == 390
MaxFilterBrands == 2
MaxCalls == 3

-----------------------------------------------------------------------------
(* JavaScript values *)

undefined == "undefined"

Truthy(v) == v # undefined /\ v # ""

LOREAL == "L'Oréal"
NESTLE == "Nestlé"

\* The characters of the strings of the universe.
Chars(s) ==
    CASE s = "" -> <<>>
      [] s = "L'Oréal" -> <<"L", "'", "O", "r", "é", "a", "l">>
      [] s = "Nestlé" -> <<"N", "e", "s", "t", "l", "é">>
      [] s = "Vichy" -> <<"V", "i", "c", "h", "y">>
      [] s = "Garnier" -> <<"G", "a", "r", "n", "i", "e", "r">>
      [] s = "Armani" -> <<"A", "r", "m", "a", "n", "i">>
      [] s = "Diesel" -> <<"D", "i", "e", "s", "e", "l">>
      [] s = "Mixa" -> <<"M", "i", "x", "a">>
      [] s = "Perrier" -> <<"P", "e", "r", "r", "i", "e", "r">>
      [] s = "Water" -> <<"W", "a", "t", "e", "r">>
      [] s = "Cosmetics" -> <<"C", "o", "s", "m", "e", "t", "i", "c", "s">>
      [] s = "Skincare" -> <<"S", "k", "i", "n", "c", "a", "r", "e">>
      [] s = "Fragrances" -> <<"F", "r", "a", "g", "r", "a", "n", "c", "e", "s">>
      [] s = "Fashion" -> <<"F", "a", "s", "h", "i", "o", "n">>
      [] s = "Uncategorized" ->
            <<"U", "n", "c", "a", "t", "e", "g", "o", "r", "i", "z", "e", "d">>
      [] s = "Beauty" -> <<"B", "e", "a", "u", "t", "y">>
      [] s = "Derma" -> <<"D", "e", "r", "m", "a">>
      [] s = "Era" -> <<"E", "r", "a">>
      [] s = "Er" -> <<"E", "r">>
      [] s = "zzz" -> <<"z", "z", "z">>

Upper == <<"A", "B", "C", "D", "E", "F", "G", "H", "I", "J", "K", "L", "M",
           "N", "O", "P", "Q", "R", "S", "T", "U", "V", "W", "X", "Y", "Z">>
Lower == <<"a", "b", "c", "d", "e", "f", "g", "h", "i", "j", "k", "l", "m",
           "n", "o", "p", "q", "r", "s", "t", "u", "v", "w", "x", "y", "z">>

\* upper-case letter -> its lower-case letter
LowerOf ==
    [c \in { Upper[k] : k \in 1..Len(Upper) } |->
        Lower[CHOOSE k \in 1..Len(Upper) : Upper[k] = c]]

IsUpper(c) == c \in DOMAIN LowerOf

ToLowerChar(c) == IF IsUpper(c) THEN LowerOf[c] ELSE c

\* String.prototype.toLowerCase, on characters
toLowerCase(t) == [k \in 1..Len(t) |-> ToLowerChar(t[k])]

\* String.prototype.includes, on characters
includes(hay, needle) ==
    \E k \in 0..(Len(hay) - Len(needle)) :
        SubSeq(hay, k + 1, k + Len(needle)) = needle

\* Collation order of the characters (punctuation before letters, an
\* accented letter right after its base letter).
Collation == <<"'", "a", "b", "c", "d", "e", "é", "f", "g", "h", "i", "j",
               "k", "l", "m", "n", "o", "p", "q", "r", "s", "t", "u", "v",
               "w", "x", "y", "z">>

\* character -> its position in the collation order
RankOf ==
    [c \in { Collation[k] : k \in 1..Len(Collation) } |->
        CHOOSE k \in 1..Len(Collation) : Collation[k] = c]

CharRank(c) == RankOf[ToLowerChar(c)]

RECURSIVE CompareKeys(_, _)
\* lexicographic comparison of two sequences of integers: -1, 0 or 1
CompareKeys(a, b) ==
    IF a = <<>> /\ b = <<>> THEN 0
    ELSE IF a = <<>> THEN -1
    ELSE IF b = <<>> THEN 1
    ELSE IF Head(a) < Head(b) THEN -1
    ELSE IF Head(a) > Head(b) THEN 1
    ELSE CompareKeys(Tail(a), Tail(b))

\* String.prototype.localeCompare: letters first (case-insensitively), then,
\* between strings with the same letters, lower case before upper case.
localeCompare(x, y) ==
    LET cx == Chars(x)
        cy == Chars(y)
        primary == CompareKeys([k \in 1..Len(cx) |-> CharRank(cx[k])],
                               [k \in 1..Len(cy) |-> CharRank(cy[k])])
        caseKey(t) == [k \in 1..Len(t) |-> IF IsUpper(t[k]) THEN 1 ELSE 0]
    IN  IF primary # 0 THEN primary ELSE CompareKeys(caseKey(cx), caseKey(cy))

RECURSIVE InsertSorted(_, _)
\* x placed after every element that does not compare greater than it
InsertSorted(x, s) ==
    IF s = <<>> THEN <<x>>
    ELSE IF localeCompare(Head(s).name, x.name) <= 0
         THEN <<Head(s)>> \o InsertSorted(x, Tail(s))
         ELSE <<x>> \o s

RECURSIVE SortByName(_)
\* Array.prototype.sort((a, b) => a.name.localeCompare(b.name)); stable
SortByName(s) ==
    IF s = <<>> THEN <<>>
    ELSE InsertSorted(s[Len(s)], SortByName(SubSeq(s, 1, Len(s) - 1)))

-----------------------------------------------------------------------------
(* The brand records of the universe *)

Brand(n, c, r, p, d, t) ==
    [name |-> n, category |-> c, region |-> r, parent_brand |-> p,
     description |-> d, tagline |-> t, nodeType |-> undefined]

BrandRecords ==
    { Brand("L'Oréal", "Cosmetics", "EU", undefined, "Beauty", undefined),
      Brand("Vichy", "Cosmetics", "EU", "L'Oréal", "Derma", undefined),
      Brand("Garnier", "Cosmetics", "US", "L'Oréal", undefined, undefined),
      Brand("Armani", "Fragrances", "EU", "L'Oréal", undefined, "Era"),
      Brand("Diesel", "Fashion", "EU", "L'Oréal", undefined, undefined),
      Brand("Mixa", undefined, "US", "L'Oréal", undefined, undefined),
      Brand("Perrier", "Water", "EU", undefined, undefined, undefined),
      Brand("Perrier", "Water", "US", undefined, undefined, undefined),
      Brand("Nestlé", undefined, "EU", undefined, undefined, undefined),
      Brand("Water", "Cosmetics", "US", "Perrier", undefined, undefined) }

\* records of brands.json that lack a name, a description or a tagline
FilterRecords ==
    BrandRecords \cup
    { Brand(undefined, "Water", "EU", undefined, "Era", undefined),
      Brand(undefined, undefined, "US", undefined, undefined, "Era"),
      Brand("", "Water", "EU", undefined, "", "Derma"),
      Brand(undefined, undefined, undefined, undefined, undefined, undefined) }

BrandLists == UNION { [1..n -> BrandRecords] : n \in 0..MaxBrands }

\* boxes of the diagram container: hidden (0 x 0), wide, and narrow
ContainerRects ==
    { [width |-> 0, height |-> 0], [width |-> 1000, height |-> 700],
      [width |-> 300, height |-> 1000] }

\* Math.atan2(dy, dx) * 180 / Math.PI of the two touch points
TouchAngles == {0, 90}

SearchInputs == {"", "Er", "zzz"}
RegionOptions == {"all", "EU", "US"}

-----------------------------------------------------------------------------
(* Filter predicate: the three copies in the source *)

\* `?.value.toLowerCase() || ''`, as characters
SearchValue(raw) == toLowerCase(Chars(raw))

\* `?.value || 'all'`
RegionValue(raw) == IF Truthy(raw) THEN raw ELSE "all"

\* document.getElementById(id): << >> when the page has no such element,
\* <<value>> for an element with that value
SearchElements == {<< >>} \cup { <<text>> : text \in SearchInputs }
RegionElements == {<< >>, <<"">>} \cup { <<region>> : region \in RegionOptions }

\* `document.getElementById('search-input')?.value.toLowerCase() || ''`: with
\* no element the optional chain yields undefined, and `|| ''` the empty text
SearchValueOf(el) == IF el = << >> THEN << >> ELSE SearchValue(el[1])

\* `document.getElementById('region-filter')?.value || 'all'`
RegionValueOf(el) == IF el = << >> THEN "all" ELSE RegionValue(el[1])

\* FieldIncludes without the toLowerCase() of the field
FieldIncludes_CaseSensitive(f, searchValue) ==
    Truthy(f) /\ includes(Chars(f), searchValue)

\* `brand.f && brand.f.toLowerCase().includes(searchValue)`
FieldIncludes(f, searchValue) ==
    Truthy(f) /\ includes(toLowerCase(Chars(f)), searchValue)

\* the callback of allBrands.filter in filterBrands
filterBrandsMatch(brand, searchValue, regionValue) ==
    LET matchesSearch == \/ searchValue = <<>>
                         \/ FieldIncludes(brand.name, searchValue)
                         \/ FieldIncludes(brand.description, searchValue)
                         \/ FieldIncludes(brand.tagline, searchValue)
        matchesRegion == regionValue = "all" \/ brand.region = regionValue
    IN  matchesSearch /\ matchesRegion

\* switchViewMatch as a copy left behind when the search was extended to the
\* description and the tagline
switchViewMatch_NameOnly(brand, searchValue, regionValue) ==
    LET matchesRegion == regionValue = "all" \/ brand.region = regionValue
        matchesSearch == \/ searchValue = <<>>
                         \/ FieldIncludes(brand.name, searchValue)
    IN  matchesRegion /\ matchesSearch

\* the callback of allBrands.filter in switchView('list')
switchViewMatch(brand, searchValue, regionValue) ==
    LET matchesRegion == regionValue = "all" \/ brand.region = regionValue
        matchesSearch == \/ searchValue = <<>>
                         \/ FieldIncludes(brand.name, searchValue)
                         \/ FieldIncludes(brand.description, searchValue)
                         \/ FieldIncludes(brand.tagline, searchValue)
    IN  matchesRegion /\ matchesSearch

\* the callback of allBrands.filter at the end of initializeRadialView
initialFilterMatch(brand, searchValue, regionValue) ==
    LET matchesRegion == regionValue = "all" \/ brand.region = regionValue
        matchesSearch == \/ searchValue = <<>>
                         \/ FieldIncludes(brand.name, searchValue)
                         \/ FieldIncludes(brand.description, searchValue)
                         \/ FieldIncludes(brand.tagline, searchValue)
    IN  matchesRegion /\ matchesSearch

\* the positions of an array; array.filter(f) is SelectSeq(Indices(array), f)
Indices(brands) == [k \in 1..Len(brands) |-> k]

-----------------------------------------------------------------------------
(* prepareRadialData *)

Node(n, t, i, lc, ch) ==
    [name |-> n, nodeType |-> t, idx |-> i, isLorealCategory |-> lc, children |-> ch]

\* a brand record used as a tree node (the record itself, by reference)
BrandNode(brands, i) == Node(brands[i].name, "brand", i, FALSE, <<>>)

RECURSIVE Dedupe(_)
\* the keys of an object in insertion order
Dedupe(s) ==
    IF s = <<>> THEN <<>>
    ELSE LET init == Dedupe(SubSeq(s, 1, Len(s) - 1))
             x == s[Len(s)]
         IN  IF \E k \in 1..Len(init) : init[k] = x THEN init ELSE Append(init, x)

\* CategoryName with the brands of a parent grouped under the parent's name
CategoryName_ByParent(brand) ==
    IF Truthy(brand.parent_brand) THEN brand.parent_brand
    ELSE IF Truthy(brand.category) THEN brand.category ELSE "Uncategorized"

\* `brand.category || 'Uncategorized'`
CategoryName(brand) == IF Truthy(brand.category) THEN brand.category ELSE "Uncategorized"

LorealSubCategoryNames == <<"Fragrances", "Cosmetics", "Skincare">>

\* allBrands.find(brand => brand.name === "L'Oréal"), as an index (0: not found)
FindLoreal(brands) ==
    IF \E k \in 1..Len(brands) : brands[k].name = LOREAL
    THEN CHOOSE k \in 1..Len(brands) :
            /\ brands[k].name = LOREAL
            /\ \A j \in 1..(k - 1) : brands[j].name # LOREAL
    ELSE 0

\* the first forEach: the records handled as the parent entry
IsParentEntry(brands, i) == brands[i].name = LOREAL /\ FindLoreal(brands) # 0

\* LorealBrands skipping the records already marked as brands
LorealBrands_Unmarked(brands) ==
    SelectSeq(Indices(brands), LAMBDA i : /\ ~IsParentEntry(brands, i)
                                          /\ brands[i].parent_brand = LOREAL
                                          /\ brands[i].nodeType = undefined)

LorealBrands(brands) ==
    SelectSeq(Indices(brands), LAMBDA i : ~IsParentEntry(brands, i) /\ brands[i].parent_brand = LOREAL)

\* DirectNestleBrands without the fallback for a missing parent entry
DirectNestleBrands_NoFallback(brands) ==
    SelectSeq(Indices(brands), LAMBDA i : ~IsParentEntry(brands, i) /\ brands[i].parent_brand # LOREAL)

\* DirectNestleBrands with the L'Oréal brands also pushed as direct brands
DirectNestleBrands_Both(brands) ==
    SelectSeq(Indices(brands), LAMBDA i : ~IsParentEntry(brands, i))

DirectNestleBrands(brands) ==
    LET direct == SelectSeq(Indices(brands), LAMBDA i : /\ ~IsParentEntry(brands, i)
                                               /\ brands[i].parent_brand # LOREAL)
    IN  IF FindLoreal(brands) = 0 THEN direct \o LorealBrands(brands) ELSE direct

\* SubCategoryChildren with every L'Oréal brand pushed into Fragrances
SubCategoryChildren_Unsplit(brands, cat) ==
    IF cat = "Fragrances"
    THEN SelectSeq(LorealBrands(brands),
                   LAMBDA i : \E k \in 1..3 : brands[i].category = LorealSubCategoryNames[k])
    ELSE <<>>

\* SubCategoryChildren with the else branch pushing into Skincare
SubCategoryChildren_Default(brands, cat) ==
    SelectSeq(LorealBrands(brands),
              LAMBDA i : \/ brands[i].category = cat
                         \/ /\ cat = "Skincare"
                            /\ \A k \in 1..3 : brands[i].category # LorealSubCategoryNames[k])

\* the L'Oréal brands pushed into the sub-category named cat
SubCategoryChildren(brands, cat) ==
    SelectSeq(LorealBrands(brands), LAMBDA i : brands[i].category = cat)

\* the L'Oréal brands that reach the console.warn branch
UnexpectedCategory(brands) ==
    SelectSeq(LorealBrands(brands),
              LAMBDA i : \A k \in 1..Len(LorealSubCategoryNames) :
                            brands[i].category # LorealSubCategoryNames[k])

LorealSubCategory(brands, cat) ==
    Node(cat, "category", 0, TRUE,
         [k \in 1..Len(SubCategoryChildren(brands, cat)) |->
            BrandNode(brands, SubCategoryChildren(brands, cat)[k])])

\* lorealParentNode after the populated sub-categories have been pushed
LorealParentNode(brands) ==
    LET subs == [k \in 1..3 |-> LorealSubCategory(brands, LorealSubCategoryNames[k])]
    IN  Node(brands[FindLoreal(brands)].name, "loreal_parent", FindLoreal(brands), FALSE,
             SelectSeq(subs, LAMBDA c : Len(c.children) > 0))

\* directNestleCategories, in key order, each with its children
DirectNestleCategories(brands) ==
    LET direct == DirectNestleBrands(brands)
        keys == Dedupe([k \in 1..Len(direct) |-> CategoryName(brands[direct[k]])])
        members(cat) == SelectSeq(direct, LAMBDA i : CategoryName(brands[i]) = cat)
    IN  [k \in 1..Len(keys) |->
            Node(keys[k], "category", 0, FALSE,
                 [j \in 1..Len(members(keys[k])) |-> BrandNode(brands, members(keys[k])[j])])]

\* rootNode.children before the sorts
UnsortedRootChildren(brands) ==
    LET parent == IF FindLoreal(brands) # 0 /\ Len(LorealParentNode(brands).children) > 0
                  THEN <<LorealParentNode(brands)>> ELSE <<>>
    IN  parent \o SelectSeq(DirectNestleCategories(brands), LAMBDA c : Len(c.children) > 0)

\* SortChild without the sort of the sub-categories' brands
SortChild_Shallow(child) == [child EXCEPT !.children = SortByName(@)]

\* the body of rootNode.children.forEach(child => ...)
SortChild(child) ==
    LET once == [child EXCEPT !.children = SortByName(@)]
    IN  IF once.nodeType = "loreal_parent"
        THEN LET again == SortByName(once.children)
             IN  [once EXCEPT !.children =
                    [k \in 1..Len(again) |-> [again[k] EXCEPT !.children = SortByName(@)]]]
        ELSE once

\* the sorts at the end of prepareRadialData
SortTree(children) ==
    LET sorted == SortByName(children)
    IN  [k \in 1..Len(sorted) |-> SortChild(sorted[k])]

\* the records that get `brand.nodeType = 'brand'`
MarkedBrand(brands) ==
    { DirectNestleBrands(brands)[k] : k \in 1..Len(DirectNestleBrands(brands)) }
    \cup (IF FindLoreal(brands) # 0
          THEN { LorealBrands(brands)[k] : k \in 1..Len(LorealBrands(brands)) }
          ELSE {})

\* what prepareRadialData writes with console.warn
PrepareWarnings(brands) ==
    IF FindLoreal(brands) # 0
    THEN { [level |-> "warn", msg |-> "unexpected category", name |-> brands[i].name] :
              i \in { UnexpectedCategory(brands)[k] : k \in 1..Len(UnexpectedCategory(brands)) } }
    ELSE IF Len(LorealBrands(brands)) > 0
         THEN { [level |-> "warn", msg |-> "no parent entry", name |-> undefined] }
         ELSE {}

\* prepareRadialData: the returned root node, the brand list as it leaves it,
\* and the diagnostics it logs
prepareRadialData(brands) ==
    [ root   |-> Node(NESTLE, "root", 0, FALSE, SortTree(UnsortedRootChildren(brands))),
      brands |-> [i \in 1..Len(brands) |->
                    IF i \in MarkedBrand(brands)
                    THEN [brands[i] EXCEPT !.nodeType = "brand"] ELSE brands[i]],
      warns  |-> PrepareWarnings(brands) ]

-----------------------------------------------------------------------------
(* The drawn hierarchy: d3.hierarchy(radialData) *)

Range(s) == { s[k] : k \in 1..Len(s) }

RECURSIVE Descendants(_, _)
\* root.descendants(), each node named by its path of child positions
Descendants(node, path) ==
    {path} \cup UNION { Descendants(node.children[k], Append(path, k)) :
                          k \in 1..Len(node.children) }

RECURSIVE NodeAt(_, _)
NodeAt(node, path) ==
    IF path = <<>> THEN node ELSE NodeAt(node.children[Head(path)], Tail(path))

ParentPath(path) == SubSeq(path, 1, Len(path) - 1)

\* root.links(), each link named by the path of its target
Links(root) == { p \in Descendants(root, <<>>) : p # <<>> }

\* the drawn nodes: path -> the datum bound to the node
Drawn(root) == [p \in Descendants(root, <<>>) |-> NodeAt(root, p)]

EmptyTree == Node(NESTLE, "root", 0, FALSE, <<>>)

-----------------------------------------------------------------------------
(* The cluster layout: d3.cluster().size([360, baseRadius]) applied to the
   hierarchy.  Coordinates are exact fractions <<numerator, denominator>> in
   lowest terms, where the browser computes in double precision. *)

Abs(n) == IF n < 0 THEN -n ELSE n

RECURSIVE GCD(_, _)
GCD(a, b) == IF b = 0 THEN a ELSE GCD(b, a % b)

\* the fraction n / d (d # 0) in lowest terms with a positive denominator
Frac(n, d) ==
    LET g == GCD(Abs(n), Abs(d))
        sign == IF d < 0 THEN -1 ELSE 1
    IN  <<sign * (n \div g), sign * (d \div g)>>

FracSub(a, b) == Frac(a[1] * b[2] - b[1] * a[2], a[2] * b[2])

\* Math.max(400, wrapRect.width || 600), likewise the height
ClampSide(side) == IF (IF side = 0 THEN 600 ELSE side) > 400
                   THEN (IF side = 0 THEN 600 ELSE side) ELSE 400

\* the width and height given to the svg for a container box
SvgSize(rect) == [width |-> ClampSide(rect.width), height |-> ClampSide(rect.height)]

\* baseRadius = Math.min(width, height) / 2 - 48
BaseRadius(size) ==
    Frac((IF size.width < size.height THEN size.width ELSE size.height) - 96, 2)

RECURSIVE LeafPaths(_, _)
\* root.leaves() in traversal order: the nodes without children
LeafPaths(node, path) ==
    IF Len(node.children) = 0 THEN <<path>>
    ELSE LET sub[k \in 0..Len(node.children)] ==
                 IF k = 0 THEN <<>>
                 ELSE sub[k - 1] \o LeafPaths(node.children[k], Append(path, k))
         IN  sub[Len(node.children)]

\* d3.cluster's default separation: a.parent === b.parent ? 1 : 2
separation(a, b) == IF ParentPath(a) = ParentPath(b) THEN 1 ELSE 2

\* the first walk of cluster(root) at the leaves: x of the k-th leaf
LeafX(leaves) ==
    LET x[k \in 1..Len(leaves)] ==
            IF k = 1 THEN 0 ELSE x[k - 1] + separation(leaves[k], leaves[k - 1])
    IN  [p \in Range(leaves) |-> x[CHOOSE k \in 1..Len(leaves) : leaves[k] = p]]

RECURSIVE FirstWalk_ByDepth(_, _, _)
\* FirstWalk with a leaf's y given by its depth instead of 0
FirstWalk_ByDepth(node, path, leafX) ==
    IF Len(node.children) = 0
    THEN path :> [x |-> <<leafX[path], 1>>, y |-> IF Len(path) = 2 THEN 1 ELSE 0]
    ELSE LET n == Len(node.children)
             kid == [k \in 1..n |-> FirstWalk_ByDepth(node.children[k], Append(path, k), leafX)]
             all[k \in 0..n] == IF k = 0 THEN << >> ELSE all[k - 1] @@ kid[k]
             sumX[k \in 0..n] ==
                 IF k = 0 THEN <<0, 1>>
                 ELSE LET a == sumX[k - 1]
                          b == kid[k][Append(path, k)].x
                      IN  <<a[1] * b[2] + b[1] * a[2], a[2] * b[2]>>
             maxY[k \in 0..n] ==
                 IF k = 0 THEN 0
                 ELSE IF kid[k][Append(path, k)].y > maxY[k - 1]
                      THEN kid[k][Append(path, k)].y ELSE maxY[k - 1]
         IN  all[n] @@ (path :> [x |-> <<sumX[n][1], sumX[n][2] * n>>, y |-> 1 + maxY[n]])

RECURSIVE FirstWalk(_, _, _)
\* the first walk of cluster(root) over the subtree at path, as a table
\* path -> [x, y]: x is the mean of the children's x and y is one more than
\* the largest y of the children; a leaf has y = 0
FirstWalk(node, path, leafX) ==
    IF Len(node.children) = 0
    THEN path :> [x |-> <<leafX[path], 1>>, y |-> 0]
    ELSE LET n == Len(node.children)
             kid == [k \in 1..n |-> FirstWalk(node.children[k], Append(path, k), leafX)]
             all[k \in 0..n] == IF k = 0 THEN << >> ELSE all[k - 1] @@ kid[k]
             sumX[k \in 0..n] ==
                 IF k = 0 THEN <<0, 1>>
                 ELSE LET a == sumX[k - 1]
                          b == kid[k][Append(path, k)].x
                      IN  <<a[1] * b[2] + b[1] * a[2], a[2] * b[2]>>
             maxY[k \in 0..n] ==
                 IF k = 0 THEN 0
                 ELSE IF kid[k][Append(path, k)].y > maxY[k - 1]
                      THEN kid[k][Append(path, k)].y ELSE maxY[k - 1]
         IN  all[n] @@ (path :> [x |-> <<sumX[n][1], sumX[n][2] * n>>, y |-> 1 + maxY[n]])

\* cluster(root): path -> [x: angle in degrees, y: radius].  The second walk
\* sets x = (x - x0) / (x1 - x0) * 360 and y = (1 - (root.y ? y / root.y : 1)) * dy
\* with x0 = left.x - separation / 2 and x1 = right.x + separation / 2; the
\* leftmost leaf has x = 0, so x - x0 = x + sep / 2 and x1 - x0 = right.x + sep.
ClusterLayout(root, size) ==
    LET leaves == LeafPaths(root, <<>>)
        leafX == LeafX(leaves)
        sep == separation(leaves[1], leaves[Len(leaves)])
        span == leafX[leaves[Len(leaves)]] + sep
        first == FirstWalk(root, <<>>, leafX)
        rootY == first[<<>>].y
        dy == BaseRadius(size)
    IN  [p \in DOMAIN first |->
            [x |-> Frac(360 * (2 * first[p].x[1] + sep * first[p].x[2]),
                        2 * first[p].x[2] * span),
             y |-> IF rootY # 0
                   THEN Frac((rootY - first[p].y) * dy[1], rootY * dy[2])
                   ELSE <<0, 1>>]]

-----------------------------------------------------------------------------
(* updateRadialView *)

\* VisibleNodeNames with the category values of all brands added only when
\* no brand matches
VisibleNodeNames_CategoriesWhenEmpty(brands, filtered) ==
    LET named == { i \in Range(filtered) : Truthy(brands[i].name) }
    IN  {NESTLE}
          \cup (IF filtered = << >>
                THEN { brands[i].category :
                         i \in { j \in 1..Len(brands) : Truthy(brands[j].category) } }
                ELSE {})
          \cup { brands[i].name : i \in named }
          \cup { brands[i].parent_brand : i \in { j \in named : Truthy(brands[j].parent_brand) } }
          \cup { brands[i].category : i \in { j \in named : Truthy(brands[j].category) } }

\* visibleNodeNames as built by updateRadialView
VisibleNodeNames(brands, filtered) ==
    LET always == {NESTLE}
        parent == IF FindLoreal(brands) # 0 THEN {brands[FindLoreal(brands)].name} ELSE {}
        categories == { brands[i].category : i \in { j \in 1..Len(brands) : Truthy(brands[j].category) } }
        named == { i \in Range(filtered) : Truthy(brands[i].name) }
    IN  always \cup parent \cup categories
          \cup { brands[i].name : i \in named }
          \cup { brands[i].parent_brand : i \in { j \in named : Truthy(brands[j].parent_brand) } }
          \cup { brands[i].category : i \in { j \in named : Truthy(brands[j].category) } }

\* NodeIsFiltered without the exemption of category nodes
NodeIsFiltered_NoCategoryExemption(d, visible) ==
    IF d.nodeType = "root" THEN FALSE
    ELSE IF d.nodeType = "loreal_parent" THEN FALSE
    ELSE d.name \notin visible

\* the callback of .classed('filtered', d => ...)
NodeIsFiltered(d, visible) ==
    IF d.nodeType = "root" THEN FALSE
    ELSE IF d.nodeType = "category" THEN FALSE
    ELSE IF d.nodeType = "loreal_parent" THEN FALSE
    ELSE d.name \notin visible

\* the callback of .style('opacity', d => ...), in tenths
LinkOpacity(source, target, visible) ==
    LET sourceVisible == \/ ~Truthy(source.nodeType)
                         \/ source.nodeType = "root"
                         \/ source.nodeType = "category"
                         \/ source.nodeType = "loreal_parent"
                         \/ source.name \in visible
        targetVisible == \/ ~Truthy(target.nodeType)
                         \/ target.nodeType = "category"
                         \/ target.name \in visible
    IN  IF sourceVisible /\ targetVisible THEN 10 ELSE 1

\* NoResultsMsgs with a message appended for every empty result
NoResultsMsgs_Append(count, filtered) ==
    IF Len(filtered) = 0 THEN count + 1
    ELSE (IF count > 0 THEN count - 1 ELSE count)

\* NoResultsMsgs with the message removed whenever one exists
NoResultsMsgs_Toggle(count, filtered) ==
    IF count > 0 THEN count - 1
    ELSE IF Len(filtered) = 0 THEN 1 ELSE 0

\* the .no-results elements after the show/hide step of updateRadialView
NoResultsMsgs(count, filtered) ==
    IF Len(filtered) = 0
    THEN (IF count = 0 THEN 1 ELSE count)
    ELSE (IF count > 0 THEN count - 1 ELSE count)

\* the elements document.querySelector('#radial-view .no-results') can find:
\* the messages appended to #radial-view and, inside #radial-diagram, the
\* error block of loadBrandData (it carries the same class and comes first)
NoResultsFound(count, errorAt) ==
    count + (IF errorAt = "radial-diagram" THEN 1 ELSE 0)

\* The part of the state the view functions read and write.
Cur ==
    [ allBrands |-> allBrands, radialSvg |-> radialSvg, radialData |-> radialData,
      filteredNodes |-> filteredNodes, linkOpacity |-> linkOpacity,
      visibleNodeNames |-> visibleNodeNames, lastFiltered |-> lastFiltered,
      noResultsMsgs |-> noResultsMsgs, svgOpacity |-> svgOpacity,
      listItems |-> listItems, console |-> console,
      containerRect |-> containerRect, svgSize |-> svgSize,
      lastTouchAngle |-> lastTouchAngle, errorIn |-> errorIn,
      pinnedSource |-> pinnedSource ]

updateRadialView(st, filtered) ==
    IF ~st.radialSvg
    THEN [st EXCEPT !.console =
            @ \cup {[level |-> "error", msg |-> "radialSvg is not initialized", name |-> undefined]}]
    ELSE LET visible == VisibleNodeNames(st.allBrands, filtered)
             nodes == Drawn(st.radialData)
             found == NoResultsFound(st.noResultsMsgs, st.errorIn)
             left == NoResultsMsgs(found, filtered)
             errorLeft == IF left < found /\ st.errorIn = "radial-diagram"
                          THEN "none" ELSE st.errorIn
         IN  [st EXCEPT
                !.visibleNodeNames = visible,
                !.lastFiltered = filtered,
                !.filteredNodes = { p \in DOMAIN nodes : NodeIsFiltered(nodes[p], visible) },
                !.linkOpacity = [p \in DOMAIN nodes \ {<<>>} |->
                                   LinkOpacity(nodes[ParentPath(p)], nodes[p], visible)],
                !.errorIn = errorLeft,
                !.noResultsMsgs = left - NoResultsFound(0, errorLeft),
                !.svgOpacity = IF Len(filtered) = 0 THEN 2 ELSE 10]

\* updateListView: the container is cleared and refilled
updateListView(st, filtered) ==
    [st EXCEPT !.listItems = filtered,
               !.errorIn = IF @ = "category-view" THEN "none" ELSE @]

\* initializeRadialView up to its last statement: the diagram is rebuilt
\* from prepareRadialData
buildRadialView(st) ==
    LET prepared == prepareRadialData(st.allBrands)
    IN  [st EXCEPT
            !.radialSvg = TRUE,
            !.allBrands = prepared.brands,
            !.radialData = prepared.root,
            !.console = @ \cup prepared.warns,
            !.filteredNodes = {},
            !.linkOpacity = [p \in Links(prepared.root) |-> 10],
            !.svgSize = SvgSize(st.containerRect),
            !.lastTouchAngle = << >>,
            !.errorIn = IF @ = "radial-diagram" THEN "none" ELSE @,
            !.pinnedSource = {},
            !.svgOpacity = 10]

\* initializeRadialView: the diagram is rebuilt, then the current filter is
\* applied
initializeRadialView(st, search, region) ==
    LET built == buildRadialView(st)
        searchValue == SearchValue(search)
        regionValue == RegionValue(region)
    IN  updateRadialView(built,
            SelectSeq(Indices(built.allBrands),
                      LAMBDA i : initialFilterMatch(built.allBrands[i], searchValue, regionValue)))

filterBrands(st, search, region, view) ==
    LET searchValue == SearchValue(search)
        regionValue == RegionValue(region)
        filteredBrands ==
            SelectSeq(Indices(st.allBrands),
                      LAMBDA i : filterBrandsMatch(st.allBrands[i], searchValue, regionValue))
    IN  IF view = "list" THEN updateListView(st, filteredBrands)
        ELSE IF view = "radial" THEN updateRadialView(st, filteredBrands)
        ELSE st

Commit(st) ==
    /\ allBrands' = st.allBrands
    /\ radialSvg' = st.radialSvg
    /\ radialData' = st.radialData
    /\ filteredNodes' = st.filteredNodes
    /\ linkOpacity' = st.linkOpacity
    /\ visibleNodeNames' = st.visibleNodeNames
    /\ lastFiltered' = st.lastFiltered
    /\ noResultsMsgs' = st.noResultsMsgs
    /\ svgOpacity' = st.svgOpacity
    /\ listItems' = st.listItems
    /\ console' = st.console
    /\ svgSize' = st.svgSize
    /\ lastTouchAngle' = st.lastTouchAngle
    /\ errorIn' = st.errorIn
    /\ pinnedSource' = st.pinnedSource

\* the coordinates cluster(root) has assigned to the drawn nodes (d.x, d.y):
\* the layout of the hierarchy in the svg of the last initializeRadialView
layout == ClusterLayout(radialData, svgSize)

-----------------------------------------------------------------------------
(* Initial state and event handlers *)

\* no updateRadialView of the ancestor-walk variant is running
NoWalk == [pc |-> "idle", todo |-> {}, node |-> << >>, k |-> 0, parent |-> 0]

\* the resize listener has not been called
NoResizeYet ==
    [sinceCall |-> 0, lastArgs |-> << >>, invokedWith |-> << >>,
     invocations |-> 0, unanswered |-> 0, calls |-> 0]

\* brands.json has been stored in allBrands, the main content is shown and the
\* first animation frame (hideLoadingScreen) is queued
Init ==
    /\ allBrands \in BrandLists
    /\ searchInput = ""
    /\ regionFilter = "all"
    /\ currentView = "radial"
    /\ radialSvg = FALSE
    /\ radialData = EmptyTree
    /\ filteredNodes = {}
    /\ linkOpacity = << >>
    /\ visibleNodeNames = {}
    /\ lastFiltered = << >>
    /\ noResultsMsgs = 0
    /\ svgOpacity = 10
    /\ listItems = << >>
    /\ rafPending = 1
    /\ console = {}
    /\ containerRect = [width |-> 1000, height |-> 700]
    /\ svgSize = [width |-> 0, height |-> 0]
    /\ rotation = 0
    /\ lastGestureRotation = 0
    /\ lastTouchAngle = << >>
    /\ errorIn = "none"
    /\ pinnedSource = {}
    /\ startTimer = FALSE
    /\ hideTimers = 0
    /\ errTimers = 0
    /\ fetchState = "ok"
    /\ brandsJson = allBrands
    /\ loadingOpacity = 0
    /\ loadingDisplay = "none"
    /\ mainHidden = FALSE
    /\ tooltipPinned = FALSE
    /\ tooltipVisible = FALSE
    /\ tooltipContent = << >>
    /\ tooltipPos = << >>
    /\ timers = {}
    /\ timeout = 0
    /\ resizeLog = NoResizeYet
    /\ walk = NoWalk

\* requestAnimationFrame(() => { initializeRadialView(); filterBrands(); })
AnimationFrame ==
    /\ rafPending > 0
    /\ rafPending' = rafPending - 1
    /\ Commit(filterBrands(initializeRadialView(Cur, searchInput, regionFilter),
                           searchInput, regionFilter, currentView))
    /\ UNCHANGED <<searchInput, regionFilter, currentView, containerRect, rotation,
                   lastGestureRotation,
                   pageVars, tipVars, debVars, walk>>

\* the 'input' listener of #search-input
SearchInput(text) ==
    /\ ~mainHidden
    /\ text # searchInput
    /\ searchInput' = text
    /\ Commit(filterBrands(Cur, text, regionFilter, currentView))
    /\ UNCHANGED <<regionFilter, currentView, rafPending,
                   containerRect, rotation, lastGestureRotation,
                   pageVars, tipVars, debVars, walk>>

\* the 'change' listener of #region-filter
RegionChange(region) ==
    /\ ~mainHidden
    /\ region # regionFilter
    /\ regionFilter' = region
    /\ Commit(filterBrands(Cur, searchInput, region, currentView))
    /\ UNCHANGED <<searchInput, currentView, rafPending,
                   containerRect, rotation, lastGestureRotation,
                   pageVars, tipVars, debVars, walk>>

\* the click listener of #list-view-btn: switchView('list')
SwitchToList ==
    /\ ~mainHidden
    /\ currentView # "list"
    /\ currentView' = "list"
    /\ Commit(updateListView(Cur,
          SelectSeq(Indices(allBrands),
                    LAMBDA i : switchViewMatch(allBrands[i], SearchValue(searchInput),
                                               RegionValue(regionFilter)))))
    /\ UNCHANGED <<searchInput, regionFilter, rafPending,
                   containerRect, rotation, lastGestureRotation,
                   pageVars, tipVars, debVars, walk>>

\* the click listener of #radial-view-btn: switchView('radial')
SwitchToRadial ==
    /\ ~mainHidden
    /\ currentView # "radial"
    /\ rafPending < MaxRaf
    /\ currentView' = "radial"
    /\ rafPending' = rafPending + 1
    /\ UNCHANGED <<allBrands, searchInput, regionFilter, radialSvg, radialData,
                   filteredNodes, linkOpacity, visibleNodeNames, lastFiltered,
                   noResultsMsgs, svgOpacity, listItems, console,
                   containerRect, svgSize, rotation, lastGestureRotation,
                   lastTouchAngle, errorIn, pinnedSource, pageVars, tipVars, debVars, walk>>

\* the debounced 'resize' listener, when its timer fires
Resize ==
    /\ currentView = "radial"
    /\ radialSvg
    /\ Commit(initializeRadialView(Cur, searchInput, regionFilter))
    /\ UNCHANGED <<searchInput, regionFilter, currentView, rafPending,
                   containerRect, rotation, lastGestureRotation,
                   pageVars, tipVars, debVars, walk>>

\* The radial view alone: the user types, picks a region and resizes.
Next ==
    \/ AnimationFrame
    \/ \E text \in SearchInputs : SearchInput(text)
    \/ \E region \in RegionOptions : RegionChange(region)
    \/ Resize

Spec == Init /\ [][Next]_vars

\* With the view buttons as well, over the shorter brand lists.
InitViews == Init /\ Len(allBrands) <= MaxViewBrands

NextViews ==
    \/ Next
    \/ SwitchToList
    \/ SwitchToRadial

SpecViews == InitViews /\ [][NextViews]_vars

\* The loaded lists with a parent entry and one brand of it, or one record.
InitTooltip ==
    /\ Init
    /\ \/ Len(allBrands) <= MaxViewBrands
       \/ /\ Len(allBrands) = 2
          /\ allBrands[1].name = LOREAL
          /\ allBrands[2].parent_brand = LOREAL

\* The filter controls over the shorter brand lists of MaxFilterBrands.
InitFilter == Init /\ Len(allBrands) <= MaxFilterBrands

SpecFilter == InitFilter /\ [][Next]_vars

\* the browser gives #radial-diagram a new box (read by the next
\* initializeRadialView through getBoundingClientRect)
ContainerResized(rect) ==
    /\ rect # containerRect
    /\ containerRect' = rect
    /\ UNCHANGED <<allBrands, searchInput, regionFilter, currentView, radialSvg,
                   radialData, filteredNodes, linkOpacity, visibleNodeNames,
                   lastFiltered, noResultsMsgs, svgOpacity, listItems, rafPending,
                   console, svgSize, rotation, lastGestureRotation, lastTouchAngle,
                   errorIn, pinnedSource, pageVars, tipVars, debVars, walk>>

\* The layout under changing container sizes.
NextLayout ==
    \/ AnimationFrame
    \/ Resize
    \/ \E rect \in ContainerRects : ContainerResized(rect)

SpecLayout == Init /\ [][NextLayout]_vars

\* what the rotation handlers leave alone
RotationFrame ==
    UNCHANGED <<allBrands, searchInput, regionFilter, currentView, radialSvg,
                radialData, filteredNodes, linkOpacity, visibleNodeNames,
                lastFiltered, noResultsMsgs, svgOpacity, listItems, rafPending,
                console, containerRect, svgSize, errorIn, pinnedSource,
                pageVars, tipVars, debVars, walk>>

\* the click listener of #rotate-left; updateRadialRotation stores the angle
RotateLeft ==
    /\ rotation - 30 >= -MaxRotation
    /\ rotation' = rotation - 30
    /\ lastGestureRotation' = rotation - 30
    /\ UNCHANGED lastTouchAngle
    /\ RotationFrame

\* the click listener of #rotate-right
RotateRight ==
    /\ rotation + 30 <= MaxRotation
    /\ rotation' = rotation + 30
    /\ lastGestureRotation' = rotation + 30
    /\ UNCHANGED lastTouchAngle
    /\ RotationFrame

\* the click listener of #reset-zoom
ResetZoom ==
    /\ radialSvg
    /\ rotation' = 0
    /\ lastGestureRotation' = 0
    /\ UNCHANGED lastTouchAngle
    /\ RotationFrame

\* 'touchstart' on the svg with two touches at the given angle
TouchStart(angle) ==
    /\ radialSvg
    /\ lastTouchAngle = << >>
    /\ lastTouchAngle' = <<angle>>
    /\ lastGestureRotation' = rotation
    /\ UNCHANGED rotation
    /\ RotationFrame

\* 'touchmove' on the svg with two touches at the given angle
TouchMove(angle) ==
    /\ radialSvg
    /\ lastTouchAngle # << >>
    /\ Abs(lastGestureRotation + (angle - lastTouchAngle[1])) <= MaxRotation
    /\ rotation' = lastGestureRotation + (angle - lastTouchAngle[1])
    /\ UNCHANGED <<lastGestureRotation, lastTouchAngle>>
    /\ RotationFrame

\* 'touchend' on the svg with fewer than two touches left
TouchEnd ==
    /\ radialSvg
    /\ lastTouchAngle # << >>
    /\ lastTouchAngle' = << >>
    /\ UNCHANGED <<rotation, lastGestureRotation>>
    /\ RotationFrame

\* The rotation controls, over the shorter brand lists.
NextRotation ==
    \/ AnimationFrame
    \/ Resize
    \/ RotateLeft
    \/ RotateRight
    \/ ResetZoom
    \/ \E angle \in TouchAngles : TouchStart(angle)
    \/ \E angle \in TouchAngles : TouchMove(angle)
    \/ TouchEnd

SpecRotation == InitViews /\ [][NextRotation]_vars

-----------------------------------------------------------------------------
(* Page load: DOMContentLoaded, hideLoadingScreen, loadBrandData *)

\* the .catch handler of loadBrandData: the error is logged and the error
\* block (class no-results, 'Error Loading Data', 'Try Again') replaces the
\* content of the container of the current view
catchLoadError(st, view) ==
    [st EXCEPT
        !.console = @ \cup {[level |-> "error", msg |-> "Error loading brand data",
                             name |-> undefined]},
        !.errorIn = IF view = "radial" THEN "radial-diagram"
                    ELSE IF view = "list" THEN "category-view"
                    ELSE "body",
        !.pinnedSource = IF view = "radial" THEN {} ELSE @,
        !.listItems = IF view = "list" THEN << >> ELSE @]

\* the page as DOMContentLoaded leaves it: the 1500 ms timer is pending,
\* the loading screen covers the hidden main content, nothing is loaded
InitLoad ==
    /\ brandsJson \in BrandLists
    /\ Len(brandsJson) <= MaxViewBrands
    /\ allBrands = << >>
    /\ searchInput = ""
    /\ regionFilter = "all"
    /\ currentView = "radial"
    /\ radialSvg = FALSE
    /\ radialData = EmptyTree
    /\ filteredNodes = {}
    /\ linkOpacity = << >>
    /\ visibleNodeNames = {}
    /\ lastFiltered = << >>
    /\ noResultsMsgs = 0
    /\ svgOpacity = 10
    /\ listItems = << >>
    /\ rafPending = 0
    /\ console = {}
    /\ containerRect = [width |-> 1000, height |-> 700]
    /\ svgSize = [width |-> 0, height |-> 0]
    /\ rotation = 0
    /\ lastGestureRotation = 0
    /\ lastTouchAngle = << >>
    /\ errorIn = "none"
    /\ pinnedSource = {}
    /\ startTimer = TRUE
    /\ hideTimers = 0
    /\ errTimers = 0
    /\ fetchState = "idle"
    /\ loadingOpacity = 10
    /\ loadingDisplay = "block"
    /\ mainHidden = TRUE
    /\ tooltipPinned = FALSE
    /\ tooltipVisible = FALSE
    /\ tooltipContent = << >>
    /\ tooltipPos = << >>
    /\ timers = {}
    /\ timeout = 0
    /\ resizeLog = NoResizeYet
    /\ walk = NoWalk

\* the 1500 ms timer: hideLoadingScreen(); loadBrandData()
StartTimer ==
    /\ startTimer
    /\ startTimer' = FALSE
    /\ loadingOpacity' = 0
    /\ hideTimers' = hideTimers + 1
    /\ fetchState' = "pending"
    /\ UNCHANGED <<allBrands, searchInput, regionFilter, currentView, radialSvg,
                   radialData, filteredNodes, linkOpacity, visibleNodeNames,
                   lastFiltered, noResultsMsgs, svgOpacity, listItems, rafPending,
                   console, containerRect, svgSize, rotation, lastGestureRotation,
                   lastTouchAngle, errorIn, pinnedSource, errTimers, brandsJson,
                   loadingDisplay, mainHidden, tipVars, debVars, walk>>

\* the 500 ms timer of hideLoadingScreen: the loading screen is removed, the
\* main content shown and the radial view queued for the next animation
\* frame; in the list view the callback calls renderCategories, which
\* scripts.js does not define, and ends there with a ReferenceError
HideTimer ==
    /\ hideTimers > 0
    /\ hideTimers' = hideTimers - 1
    /\ loadingDisplay' = "none"
    /\ mainHidden' = FALSE
    /\ rafPending' = IF currentView = "radial" THEN rafPending + 1 ELSE rafPending
    /\ UNCHANGED <<allBrands, searchInput, regionFilter, currentView, radialSvg,
                   radialData, filteredNodes, linkOpacity, visibleNodeNames,
                   lastFiltered, noResultsMsgs, svgOpacity, listItems,
                   console, containerRect, svgSize, rotation, lastGestureRotation,
                   lastTouchAngle, errorIn, pinnedSource, startTimer, errTimers,
                   fetchState, brandsJson, loadingOpacity, tipVars, debVars, walk>>

\* dataLoaded with the visible radial view only filtered again
dataLoaded_NoReinit(st, hidden, view, search, region) ==
    IF hidden \/ view = "radial"
    THEN filterBrands(st, search, region, view)
    ELSE catchLoadError(st, view)

\* the view after the second .then of loadBrandData has stored the list: with
\* the main content still hidden only filterBrands() acts on it (the views are
\* left to hideLoadingScreen); otherwise the radial view is initialised and
\* filtered, and in the list view renderCategories, which scripts.js does not
\* define, throws a ReferenceError that the .catch handler receives
dataLoaded(st, hidden, view, search, region) ==
    IF hidden
    THEN filterBrands(st, search, region, view)
    ELSE IF view = "radial"
    THEN filterBrands(initializeRadialView(st, search, region), search, region, view)
    ELSE catchLoadError(st, view)

\* the second .then of loadBrandData, with the parsed list
FetchSuccess ==
    /\ fetchState = "pending"
    /\ fetchState' = "ok"
    /\ Commit(dataLoaded([Cur EXCEPT !.allBrands = brandsJson], mainHidden,
                          currentView, searchInput, regionFilter))
    /\ IF mainHidden
       THEN \* hideLoadingScreen()
            /\ loadingOpacity' = 0
            /\ hideTimers' = hideTimers + 1
            /\ errTimers' = errTimers
       ELSE IF currentView = "radial"
       THEN UNCHANGED <<loadingOpacity, hideTimers, errTimers>>
       ELSE \* the .catch handler
            /\ loadingOpacity' = 0
            /\ errTimers' = errTimers + 1
            /\ hideTimers' = hideTimers
    /\ UNCHANGED <<searchInput, regionFilter, currentView, rafPending, containerRect,
                   rotation, lastGestureRotation, startTimer, brandsJson,
                   loadingDisplay, mainHidden, tipVars, debVars, walk>>

\* fetch rejects, or the response is not ok: the .catch handler
FetchFail ==
    /\ fetchState = "pending"
    /\ fetchState' = "failed"
    /\ Commit(catchLoadError(Cur, currentView))
    /\ loadingOpacity' = 0
    /\ errTimers' = errTimers + 1
    /\ UNCHANGED <<searchInput, regionFilter, currentView, rafPending, containerRect,
                   rotation, lastGestureRotation, startTimer, hideTimers, brandsJson,
                   loadingDisplay, mainHidden, tipVars, debVars, walk>>

\* the 500 ms timer of the .catch handler
ErrTimer ==
    /\ errTimers > 0
    /\ errTimers' = errTimers - 1
    /\ loadingDisplay' = "none"
    /\ UNCHANGED <<allBrands, searchInput, regionFilter, currentView, radialSvg,
                   radialData, filteredNodes, linkOpacity, visibleNodeNames,
                   lastFiltered, noResultsMsgs, svgOpacity, listItems, rafPending,
                   console, containerRect, svgSize, rotation, lastGestureRotation,
                   lastTouchAngle, errorIn, pinnedSource, startTimer, hideTimers,
                   fetchState, brandsJson, loadingOpacity, mainHidden, tipVars, debVars, walk>>

\* The page from DOMContentLoaded on: the timers, the fetch and the user.
NextLoad ==
    \/ StartTimer
    \/ HideTimer
    \/ AnimationFrame
    \/ FetchSuccess
    \/ FetchFail
    \/ ErrTimer
    \/ Resize
    \/ \E text \in SearchInputs : SearchInput(text)
    \/ SwitchToList
    \/ SwitchToRadial

SpecLoad == InitLoad /\ [][NextLoad]_vars

-----------------------------------------------------------------------------
(* debounce and the debounced resize listener; time in ticks of 125 ms *)

\* the wait of the resize listener: 250 ms
ResizeWait == 2

\* clearTimeout that cancels nothing
clearTimeout_Noop(pending, id) == pending

\* clearTimeout(id): the pending timer with that id, if any, is cancelled
clearTimeout(pending, id) == { t \in pending : t.id # id }

\* the function debounce passes to setTimeout calls func: the resize
\* listener body
resizeListener(st, view, search, region) ==
    IF view = "radial" /\ st.radialSvg
    THEN initializeRadialView(st, search, region)
    ELSE st

\* what the debounce steps leave alone besides the view state
DebounceFrame ==
    UNCHANGED <<searchInput, regionFilter, currentView, rafPending, rotation,
                lastGestureRotation, pageVars, tipVars, walk>>

\* a 'resize' event: the window gives #radial-diagram the box rect and the
\* debounced listener is called with the event
WindowResize(rect) ==
    /\ resizeLog.calls < MaxCalls
    /\ containerRect' = rect
    /\ timers' = clearTimeout(timers, timeout)
                    \cup {[id |-> resizeLog.calls + 1, args |-> rect, remaining |-> ResizeWait]}
    /\ timeout' = resizeLog.calls + 1
    /\ resizeLog' = [resizeLog EXCEPT !.calls = @ + 1, !.sinceCall = 0,
                                      !.lastArgs = <<rect>>, !.unanswered = @ + 1]
    /\ UNCHANGED <<allBrands, radialSvg, radialData, filteredNodes, linkOpacity,
                   visibleNodeNames, lastFiltered, noResultsMsgs, svgOpacity,
                   listItems, console, svgSize, lastTouchAngle, errorIn, pinnedSource>>
    /\ DebounceFrame

\* 125 ms pass
Tick ==
    /\ \/ resizeLog.sinceCall < ResizeWait
       \/ \E t \in timers : t.remaining > 0
    /\ timers' = { [t EXCEPT !.remaining = IF @ > 0 THEN @ - 1 ELSE 0] : t \in timers }
    /\ resizeLog' = [resizeLog EXCEPT !.sinceCall = IF @ < ResizeWait THEN @ + 1 ELSE @]
    /\ UNCHANGED <<allBrands, radialSvg, radialData, filteredNodes, linkOpacity,
                   visibleNodeNames, lastFiltered, noResultsMsgs, svgOpacity,
                   listItems, console, containerRect, svgSize, lastTouchAngle,
                   errorIn, pinnedSource, timeout>>
    /\ DebounceFrame

\* a timer that is due runs its callback: func.apply(context, args)
DebounceFire ==
    \E t \in timers :
        /\ t.remaining = 0
        /\ timers' = timers \ {t}
        /\ resizeLog' = [resizeLog EXCEPT !.invocations = @ + 1,
                                          !.invokedWith = <<t.args>>,
                                          !.unanswered = 0]
        /\ Commit(resizeListener(Cur, currentView, searchInput, regionFilter))
        /\ UNCHANGED <<containerRect, timeout>>
        /\ DebounceFrame

\* The resize listener with its timers, and the view buttons.
NextDebounce ==
    \/ AnimationFrame
    \/ \E rect \in ContainerRects : WindowResize(rect)
    \/ Tick
    \/ DebounceFire
    \/ SwitchToList
    \/ SwitchToRadial

SpecDebounce == InitViews /\ [][NextDebounce]_vars

-----------------------------------------------------------------------------
(* Tooltip: hover and click handlers of the nodes, background click *)

\* event.pageX / pageY of a mouse event
PointerPositions == {1, 2}

\* the tooltip text the mouseenter and click handlers build for a node
TooltipContent(d, brands) ==
    LET count(cat) ==
            LET found == SelectSeq(d.children, LAMBDA c : c.name = cat)
            IN  IF found = << >> THEN 0 ELSE Len(found[1].children)
        isBrand == d.nodeType = "brand"
    IN  [ title |-> IF Truthy(d.name) THEN d.name ELSE "Unknown",
          kind |-> d.nodeType,
          tagline |-> IF isBrand THEN brands[d.idx].tagline ELSE undefined,
          region |-> IF isBrand THEN brands[d.idx].region ELSE undefined,
          description |-> IF isBrand THEN brands[d.idx].description ELSE undefined,
          items |-> IF d.nodeType = "category" THEN Len(d.children) ELSE 0,
          fragrances |-> IF d.nodeType = "loreal_parent" THEN count("Fragrances") ELSE 0,
          cosmetics |-> IF d.nodeType = "loreal_parent" THEN count("Cosmetics") ELSE 0 ]

\* the .node elements are in the document and can receive mouse events
NodesOnScreen ==
    /\ radialSvg
    /\ errorIn # "radial-diagram"
    /\ currentView = "radial"
    /\ ~mainHidden

\* what the tooltip handlers leave alone
TooltipFrame ==
    UNCHANGED <<allBrands, searchInput, regionFilter, currentView, radialSvg,
                radialData, filteredNodes, linkOpacity, visibleNodeNames,
                lastFiltered, noResultsMsgs, svgOpacity, listItems, rafPending,
                console, containerRect, svgSize, rotation, lastGestureRotation,
                lastTouchAngle, errorIn, pageVars, debVars, walk>>

\* 'click' on the .node element at path p (not the root)
NodeClick(p) ==
    /\ NodesOnScreen
    /\ p \in DOMAIN Drawn(radialData)
    /\ Drawn(radialData)[p].nodeType # "root"
    /\ IF tooltipPinned /\ p \in pinnedSource
       THEN /\ tooltipPinned' = FALSE
            /\ tooltipVisible' = FALSE
            /\ pinnedSource' = {}
            /\ UNCHANGED <<tooltipContent, tooltipPos>>
       ELSE /\ pinnedSource' = {p}
            /\ tooltipContent' = <<TooltipContent(Drawn(radialData)[p], allBrands)>>
            /\ tooltipVisible' = TRUE
            /\ tooltipPinned' = TRUE
            /\ tooltipPos' = <<"node", p>>
    /\ TooltipFrame

\* 'click.tooltipUnpin' on the body, for a click outside the tooltip and
\* outside every node
BackgroundClick ==
    /\ tooltipPinned' = FALSE
    /\ tooltipVisible' = FALSE
    /\ UNCHANGED <<tooltipContent, tooltipPos, pinnedSource>>
    /\ TooltipFrame

\* 'mouseenter' on the circle or icon of the node at path p
MouseEnter(p, at) ==
    /\ NodesOnScreen
    /\ p \in DOMAIN Drawn(radialData)
    /\ IF Drawn(radialData)[p].nodeType = "root" \/ tooltipPinned
       THEN UNCHANGED tipVars
       ELSE /\ tooltipContent' = <<TooltipContent(Drawn(radialData)[p], allBrands)>>
            /\ tooltipPos' = <<"mouse", at>>
            /\ tooltipVisible' = TRUE
            /\ UNCHANGED tooltipPinned
    /\ UNCHANGED pinnedSource
    /\ TooltipFrame

\* 'mousemove' on the circle or icon of a node
MouseMove(at) ==
    /\ NodesOnScreen
    /\ IF tooltipPinned
       THEN UNCHANGED tipVars
       ELSE /\ tooltipPos' = <<"mouse", at>>
            /\ UNCHANGED <<tooltipPinned, tooltipVisible, tooltipContent>>
    /\ UNCHANGED pinnedSource
    /\ TooltipFrame

\* 'mouseleave' on the circle or icon of a node
MouseLeave ==
    /\ NodesOnScreen
    /\ IF tooltipPinned
       THEN UNCHANGED tipVars
       ELSE /\ tooltipVisible' = FALSE
            /\ UNCHANGED <<tooltipPinned, tooltipContent, tooltipPos>>
    /\ UNCHANGED pinnedSource
    /\ TooltipFrame

\* the paths a mouse event can name in the hierarchies of the model
NodePaths == {<< >>} \cup {<<i>> : i \in 1..2} \cup {<<i, j>> : i \in 1..2, j \in 1..2}
                \cup {<<1, j, k>> : j \in 1..2, k \in 1..2}

\* The tooltip, with the re-initialisations of the diagram.
NextTooltip ==
    \/ AnimationFrame
    \/ Resize
    \/ SwitchToList
    \/ SwitchToRadial
    \/ \E p \in NodePaths : NodeClick(p)
    \/ BackgroundClick
    \/ \E p \in NodePaths, at \in PointerPositions : MouseEnter(p, at)
    \/ \E at \in PointerPositions : MouseMove(at)
    \/ MouseLeave

SpecTooltip == InitTooltip /\ [][NextTooltip]_vars

-----------------------------------------------------------------------------
(* The ancestor-walk variant of updateRadialView (Architecture/new/index.html, *)
(* second script).  Each pass of its inner while loop is one step.            *)

\* the records of the variant's model: for these the variant's
\* prepareRadialData (sub-categories Fashion and Cosmetics) builds the same
\* tree as the one of scripts.js; two of them name themselves, or each
\* other, as parent_brand
VariantRecords ==
    { Brand("Perrier", "Water", "EU", undefined, undefined, undefined),
      Brand("Water", "Cosmetics", "US", "Perrier", undefined, undefined),
      Brand("Perrier", "Water", "EU", "Perrier", undefined, undefined),
      Brand("Perrier", "Water", "US", "Water", undefined, undefined),
      Brand(LOREAL, "Cosmetics", "EU", undefined, "Beauty", undefined),
      Brand("Garnier", "Cosmetics", "US", LOREAL, undefined, undefined),
      Brand(NESTLE, undefined, "EU", undefined, undefined, undefined) }

VariantLists ==
    UNION { [1..n -> VariantRecords] : n \in 0..MaxFilterBrands }

\* allBrands.find(b => b.name === name), as an index (0: not found)
VariantFind(brands, name) ==
    IF \E k \in 1..Len(brands) : brands[k].name = name
    THEN CHOOSE k \in 1..Len(brands) :
            /\ brands[k].name = name
            /\ \A j \in 1..(k - 1) : brands[j].name # name
    ELSE 0

\* visibleNodeNames before the loop over the nodes: the names of the filtered
\* records (the walk up the temporary, flat hierarchy adds nothing more), the
\* root when a record is filtered, and L'Oréal when its own record is
\* among the visible brand names
VariantBaseVisible(brands, filtered) ==
    LET visibleBrandNames ==
            { brands[filtered[k]].name : k \in { j \in 1..Len(filtered) :
                  /\ \/ brands[filtered[j]].nodeType = "brand"
                     \/ ~Truthy(brands[filtered[j]].nodeType)
                  /\ Truthy(brands[filtered[j]].name) } }
    IN  { brands[filtered[k]].name : k \in { j \in 1..Len(filtered) :
                                               Truthy(brands[filtered[j]].name) } }
        \cup (IF Len(filtered) > 0 THEN {NESTLE} ELSE {})
        \cup (IF FindLoreal(brands) # 0 /\ LOREAL \in visibleBrandNames
              THEN {LOREAL} ELSE {})

\* the nodes the loop `selectAll('.node').each` examines
VariantWalkNodes(root) ==
    { p \in DOMAIN Drawn(root) : Drawn(root)[p].nodeType \in {"category", "loreal_parent"} }

\* the state as updateRadialView of the variant enters its loop over the nodes
VariantBegin(st, filtered) ==
    [st EXCEPT !.visibleNodeNames = VariantBaseVisible(st.allBrands, filtered),
               !.lastFiltered = filtered]

\* the opacity the variant gives a link: both ends must be in the set
VariantLinkOpacity(source, target, visible) ==
    IF source.name \in visible /\ target.name \in visible THEN 10 ELSE 1

\* the rest of the variant's updateRadialView, after the loop over the nodes
VariantFinish(st) ==
    LET nodes == Drawn(st.radialData)
        visible == st.visibleNodeNames
        found == NoResultsFound(st.noResultsMsgs, st.errorIn)
        left == NoResultsMsgs(found, st.lastFiltered)
        errorLeft == IF left < found /\ st.errorIn = "radial-diagram"
                     THEN "none" ELSE st.errorIn
    IN  [st EXCEPT
            !.filteredNodes = { p \in DOMAIN nodes :
                                  nodes[p].nodeType # "root" /\ nodes[p].name \notin visible },
            !.linkOpacity = [p \in DOMAIN nodes \ {<<>>} |->
                               VariantLinkOpacity(nodes[ParentPath(p)], nodes[p], visible)],
            !.errorIn = errorLeft,
            !.noResultsMsgs = left - NoResultsFound(0, errorLeft),
            !.svgOpacity = IF Len(st.lastFiltered) = 0 THEN 2 ELSE 10]

\* what the variant's steps leave alone besides the view state
VariantFrame ==
    UNCHANGED <<currentView, containerRect, rotation, lastGestureRotation,
                pageVars, tipVars, debVars>>

InitVariant ==
    /\ allBrands \in VariantLists
    /\ searchInput = ""
    /\ regionFilter = "all"
    /\ currentView = "radial"
    /\ radialSvg = FALSE
    /\ radialData = EmptyTree
    /\ filteredNodes = {}
    /\ linkOpacity = << >>
    /\ visibleNodeNames = {}
    /\ lastFiltered = << >>
    /\ noResultsMsgs = 0
    /\ svgOpacity = 10
    /\ listItems = << >>
    /\ rafPending = 1
    /\ console = {}
    /\ containerRect = [width |-> 1000, height |-> 700]
    /\ svgSize = [width |-> 0, height |-> 0]
    /\ rotation = 0
    /\ lastGestureRotation = 0
    /\ lastTouchAngle = << >>
    /\ errorIn = "none"
    /\ pinnedSource = {}
    /\ startTimer = FALSE
    /\ hideTimers = 0
    /\ errTimers = 0
    /\ fetchState = "ok"
    /\ brandsJson = allBrands
    /\ loadingOpacity = 0
    /\ loadingDisplay = "none"
    /\ mainHidden = FALSE
    /\ tooltipPinned = FALSE
    /\ tooltipVisible = FALSE
    /\ tooltipContent = << >>
    /\ tooltipPos = << >>
    /\ timers = {}
    /\ timeout = 0
    /\ resizeLog = NoResizeYet
    /\ walk = NoWalk

\* the animation frame: initializeRadialView, whose last statement calls the
\* variant's updateRadialView with the list the current filter selects
VariantAnimationFrame ==
    /\ walk.pc = "idle"
    /\ rafPending > 0
    /\ rafPending' = rafPending - 1
    /\ LET built == buildRadialView(Cur)
           filtered == SelectSeq(Indices(built.allBrands),
                           LAMBDA i : initialFilterMatch(built.allBrands[i],
                                         SearchValue(searchInput), RegionValue(regionFilter)))
       IN  /\ Commit(VariantBegin(built, filtered))
           /\ walk' = [NoWalk EXCEPT !.pc = "walk", !.todo = VariantWalkNodes(built.radialData)]
    /\ UNCHANGED <<searchInput, regionFilter>>
    /\ VariantFrame

\* the 'input' / 'change' listeners: filterBrands() calls the variant's
\* updateRadialView
VariantFilter(text, region) ==
    /\ walk.pc = "idle"
    /\ radialSvg
    /\ <<text, region>> # <<searchInput, regionFilter>>
    /\ searchInput' = text
    /\ regionFilter' = region
    /\ LET filtered == SelectSeq(Indices(allBrands),
                           LAMBDA i : filterBrandsMatch(allBrands[i],
                                         SearchValue(text), RegionValue(region)))
       IN  /\ Commit(VariantBegin(Cur, filtered))
           /\ walk' = [NoWalk EXCEPT !.pc = "walk", !.todo = VariantWalkNodes(radialData)]
    /\ UNCHANGED rafPending
    /\ VariantFrame

\* one step of the loop over the nodes: the next node is taken, the next
\* filtered brand is taken (`some`), or a statement of the body of
\* `while (parent)` is run: the comparison of the names (pc "walk"), then the
\* move to the record named as parent_brand (pc "find"); with no node left
\* the rest of updateRadialView runs
WalkStep ==
    /\ walk.pc \in {"walk", "find"}
    /\ IF walk.pc = "find"
       THEN /\ walk' = [walk EXCEPT !.pc = "walk", !.parent =
                                      VariantFind(allBrands, allBrands[walk.parent].parent_brand)]
            /\ Commit(Cur)
       ELSE IF walk.node = << >>
       THEN IF walk.todo = {}
            THEN /\ Commit(VariantFinish(Cur))
                 /\ walk' = NoWalk
            ELSE LET p == CHOOSE q \in walk.todo : TRUE
                 IN  /\ walk' = [walk EXCEPT !.node = <<p>>, !.todo = @ \ {p},
                                             !.k = 0, !.parent = 0]
                     /\ Commit(Cur)
       ELSE IF walk.parent = 0
       THEN IF walk.k = Len(lastFiltered)
            THEN \* containsVisibleBrand is false
                 /\ walk' = [walk EXCEPT !.node = << >>]
                 /\ Commit(Cur)
            ELSE /\ walk' = [walk EXCEPT !.k = @ + 1, !.parent = lastFiltered[walk.k + 1]]
                 /\ Commit(Cur)
       ELSE IF allBrands[walk.parent].name = Drawn(radialData)[walk.node[1]].name
       THEN \* containsVisibleBrand is true
            /\ walk' = [walk EXCEPT !.node = << >>]
            /\ Commit([Cur EXCEPT !.visibleNodeNames =
                                      @ \cup {Drawn(radialData)[walk.node[1]].name}])
       ELSE /\ walk' = [walk EXCEPT !.pc = "find"]
            /\ Commit(Cur)
    /\ UNCHANGED <<searchInput, regionFilter, rafPending>>
    /\ VariantFrame

\* The variant: the diagram is drawn and filtered.
NextVariant ==
    \/ VariantAnimationFrame
    \/ \E text \in SearchInputs, region \in RegionOptions : VariantFilter(text, region)
    \/ WalkStep

SpecVariant == InitVariant /\ [][NextVariant]_vars

\* A handler that has started runs on: the loop takes its next step.
SpecVariantFair == SpecVariant /\ WF_vars(WalkStep)

-----------------------------------------------------------------------------
(* Properties *)

\* the brand-type leaves among the drawn nodes
BrandLeaves(nodes) == { p \in DOMAIN nodes : nodes[p].nodeType = "brand" }

\* the records named as the distinguished parent entity
ParentEntries == { i \in 1..Len(allBrands) : allBrands[i].name = LOREAL }

\* the records rejected with a logged warning that names them
Rejected ==
    { i \in 1..Len(allBrands) :
        /\ allBrands[i].parent_brand = LOREAL
        /\ \E w \in console : w.level = "warn" /\ w.name = allBrands[i].name }

LeavesOfRecord(nodes, i) == { p \in BrandLeaves(nodes) : nodes[p].idx = i }

LeavesNamed(nodes, n) == { p \in BrandLeaves(nodes) : nodes[p].name = n }

\* C1 as stated: the number of brand leaves is the number of records minus
\* the explicitly rejected ones, and the name of every accepted record
\* appears exactly once among the leaves.
C1_ConservationAsStated ==
    radialSvg =>
        LET nodes == Drawn(radialData)
        IN  /\ Cardinality(BrandLeaves(nodes)) = Len(allBrands) - Cardinality(Rejected)
            /\ \A i \in (1..Len(allBrands)) \ Rejected :
                  Cardinality(LeavesNamed(nodes, allBrands[i].name)) = 1

\* C1 amended: the number of brand leaves is the number of records minus the
\* rejected ones minus the records named L'Oréal (never leaves); every other
\* record is the datum of exactly one leaf, and a name appears among the
\* leaves once per such record carrying it.
C1_Conservation ==
    radialSvg =>
        LET nodes == Drawn(radialData)
            accepted == ((1..Len(allBrands)) \ Rejected) \ ParentEntries
        IN  /\ Cardinality(BrandLeaves(nodes)) = Cardinality(accepted)
            /\ \A i \in accepted : Cardinality(LeavesOfRecord(nodes, i)) = 1
            /\ \A i \in (1..Len(allBrands)) \ accepted : LeavesOfRecord(nodes, i) = {}
            /\ \A i \in accepted :
                  Cardinality(LeavesNamed(nodes, allBrands[i].name)) =
                  Cardinality({ j \in accepted : allBrands[j].name = allBrands[i].name })

\* C1 witness: a tree built from a list with the L'Oréal record, a rejected
\* L'Oréal brand and an accepted one (a leaf at depth 3).
C1_Witness ==
    /\ radialSvg
    /\ ParentEntries # {}
    /\ Rejected # {}
    /\ \E p \in BrandLeaves(Drawn(radialData)) : Len(p) = 3

\* C2 as stated: every record is bound to some node of the tree or has a
\* logged diagnostic naming it.
C2_NoSilentLoss ==
    radialSvg =>
        LET nodes == Drawn(radialData)
        IN  \A i \in 1..Len(allBrands) :
                \/ \E p \in DOMAIN nodes : nodes[p].idx = i
                \/ \E w \in console : w.name = allBrands[i].name

Ancestors(p) == { SubSeq(p, 1, k) : k \in 0..(Len(p) - 1) }

\* C3 as stated: after updateRadialView, the name of every ancestor node of
\* every brand of filteredBrands is in the visible-name set.
C3_AncestorPropagation ==
    radialSvg =>
        LET nodes == Drawn(radialData)
        IN  \A i \in Range(lastFiltered) : \A p \in LeavesOfRecord(nodes, i) :
                \A q \in Ancestors(p) : nodes[q].name \in visibleNodeNames

\* C4 as stated: after updateRadialView, a brand node carries the 'filtered'
\* mark exactly when its record is not in filteredBrands.
C4_FilteredMark ==
    radialSvg =>
        LET nodes == Drawn(radialData)
        IN  \A p \in BrandLeaves(nodes) :
                (p \in filteredNodes) <=> (nodes[p].idx \notin Range(lastFiltered))

SameLetter(a, b) ==
    a = b \/ \E k \in 1..Len(Upper) : {a, b} = {Upper[k], Lower[k]}

\* needle occurs in hay at some offset, letters compared regardless of case
OccursIgnoringCase(hay, needle) ==
    \E off \in 0..(Len(hay) - Len(needle)) :
        \A j \in 1..Len(needle) : SameLetter(hay[off + j], needle[j])

SelectedByFilter(brand) ==
    /\ regionFilter = "all" \/ brand.region = regionFilter
    /\ \/ searchInput = ""
       \/ \E f \in {brand.name, brand.description, brand.tagline} :
             f # undefined /\ OccursIgnoringCase(Chars(f), Chars(searchInput))

\* C5: the records filterBrands passes on are exactly those whose region
\* passes the region filter and for which the search text is empty or occurs,
\* regardless of case, in the name, description or tagline; a missing
\* description or tagline never matches.
C5_FilterPredicate ==
    radialSvg =>
        lastFiltered = SelectSeq(Indices(allBrands), LAMBDA i : SelectedByFilter(allBrands[i]))

\* C5 witness: a typed search in mixed case selects one record by its name
\* and another by its tagline, and leaves out a record without description
\* and tagline.
C5_Witness ==
    /\ radialSvg
    /\ searchInput = "Er"
    /\ \E i \in Range(lastFiltered) : allBrands[i].name = "Perrier"
    /\ \E i \in Range(lastFiltered) : allBrands[i].tagline = "Era"
    /\ \E i \in 1..Len(allBrands) :
          /\ i \notin Range(lastFiltered)
          /\ allBrands[i].description = undefined
          /\ allBrands[i].tagline = undefined

StructuralPaths(nodes) ==
    { p \in DOMAIN nodes : nodes[p].nodeType \in {"root", "category", "loreal_parent"} }

\* C6: updateRadialView never marks the root node, a category node or the
\* L'Oréal parent node as 'filtered'.
C6_StructuralNeverFiltered ==
    radialSvg => StructuralPaths(Drawn(radialData)) \cap filteredNodes = {}

\* C6 witness: no brand matches, and the tree has the L'Oréal parent, a
\* sub-category and the fallback category, whose name is not in the visible set.
C6_Witness ==
    LET nodes == Drawn(radialData)
    IN  /\ radialSvg
        /\ lastFiltered = << >>
        /\ \E p \in StructuralPaths(nodes) : nodes[p].nodeType = "loreal_parent"
        /\ \E p \in StructuralPaths(nodes) : nodes[p].name \notin visibleNodeNames

EndpointVisible(node) == node.nodeType = "brand" => node.idx \in Range(lastFiltered)

\* C7 as stated: every link of the hierarchy is kept, at opacity 1 or 0.1, and
\* a link is at opacity 1 only if both its endpoints are visible (a brand
\* endpoint: its record matches the filter).
C7_LinkOpacity ==
    radialSvg =>
        LET nodes == Drawn(radialData)
        IN  /\ DOMAIN linkOpacity = Links(radialData)
            /\ \A p \in Links(radialData) :
                  /\ linkOpacity[p] \in {1, 10}
                  /\ linkOpacity[p] = 10 =>
                        EndpointVisible(nodes[ParentPath(p)]) /\ EndpointVisible(nodes[p])

NodeNamesOfType(nodes, t) ==
    { nodes[p].name : p \in { q \in DOMAIN nodes : nodes[q].nodeType = t } }

\* C8 as stated: when no brand matches, the visible-name set is the root
\* name, the names of the category nodes of the tree and the name of the
\* parent-entity node if the tree has one.
C8_NoMatchVisible ==
    (radialSvg /\ lastFiltered = << >>) =>
        LET nodes == Drawn(radialData)
        IN  visibleNodeNames = {NESTLE} \cup NodeNamesOfType(nodes, "category")
                                        \cup NodeNamesOfType(nodes, "loreal_parent")

ChildrenSorted(node) ==
    \A k \in 1..(Len(node.children) - 1) :
        localeCompare(node.children[k].name, node.children[k + 1].name) <= 0

RECURSIVE Content(_, _)
\* a tree with each node's record in place of the record's position
Content(node, brands) ==
    [ name |-> node.name, nodeType |-> node.nodeType,
      data |-> IF node.idx = 0 THEN <<>> ELSE <<brands[node.idx]>>,
      children |-> [k \in 1..Len(node.children) |-> Content(node.children[k], brands)] ]

\* the list with the records at positions k and k + 1 exchanged
SwapAt(list, k) ==
    [j \in 1..Len(list) |->
        IF j = k THEN list[k + 1] ELSE IF j = k + 1 THEN list[k] ELSE list[j]]

DistinctNames ==
    \A a, b \in 1..Len(allBrands) : a # b => allBrands[a].name # allBrands[b].name

\* C9: the children of every node are in ascending order of name, and
\* exchanging two neighbouring records of a brand list with distinct names
\* leaves the tree unchanged (every brand list is drawn, and every reordering
\* is a chain of such exchanges, so all orderings of a list give one tree).
C9_SortedChildren ==
    radialSvg =>
        LET nodes == Drawn(radialData)
        IN  /\ \A p \in DOMAIN nodes : ChildrenSorted(nodes[p])
            /\ DistinctNames =>
                  LET drawn == Content(radialData, allBrands)
                  IN  \A k \in 1..(Len(allBrands) - 1) :
                          LET again == prepareRadialData(SwapAt(allBrands, k))
                          IN  Content(again.root, again.brands) = drawn

\* C9 witness: a sub-category of the parent entity holds two brands that were
\* pushed in descending order of name.
C9_Witness ==
    LET nodes == Drawn(radialData)
    IN  /\ radialSvg
        /\ DistinctNames
        /\ \E p \in DOMAIN nodes :
              /\ Len(p) = 2
              /\ Len(nodes[p].children) = 2
              /\ nodes[p].children[1].idx > nodes[p].children[2].idx
              /\ localeCompare(nodes[p].children[1].name, nodes[p].children[2].name) < 0

\* C10 as stated: one root; every node has one parent; root at depth 0,
\* category and parent-entity nodes at depth 1, brand nodes at depth 2 or 3.
C10_DepthAsStated ==
    radialSvg =>
        LET nodes == Drawn(radialData)
        IN  \A p \in DOMAIN nodes :
                /\ nodes[p].nodeType = "root" <=> Len(p) = 0
                /\ nodes[p].nodeType \in {"category", "loreal_parent"} => Len(p) = 1
                /\ nodes[p].nodeType = "brand" => Len(p) \in {2, 3}

\* C10 amended: one root; no record is bound to two nodes; root at depth 0,
\* the parent entity at depth 1, a category at depth 1 or, as a sub-category
\* of the parent entity, at depth 2; a brand at depth 2 under a top-level
\* category or at depth 3 under a sub-category.
C10_Depth ==
    radialSvg =>
        LET nodes == Drawn(radialData)
        IN  /\ \A p \in DOMAIN nodes :
                  /\ nodes[p].nodeType \in {"root", "category", "loreal_parent", "brand"}
                  /\ nodes[p].nodeType = "root" <=> Len(p) = 0
                  /\ nodes[p].nodeType = "loreal_parent" => Len(p) = 1
                  /\ nodes[p].nodeType = "category" =>
                        \/ Len(p) = 1
                        \/ Len(p) = 2 /\ nodes[ParentPath(p)].nodeType = "loreal_parent"
                  /\ nodes[p].nodeType = "brand" =>
                        /\ Len(p) \in {2, 3}
                        /\ nodes[ParentPath(p)].nodeType = "category"
                        /\ nodes[p].children = << >>
            /\ \A i \in 1..Len(allBrands) :
                  Cardinality({ p \in DOMAIN nodes : nodes[p].idx = i }) <= 1

\* C10 witness: a tree with a brand at depth 2 and a brand at depth 3.
C10_Witness ==
    LET leaves == BrandLeaves(Drawn(radialData))
    IN  /\ radialSvg
        /\ \E p \in leaves : Len(p) = 2
        /\ \E p \in leaves : Len(p) = 3

HasParentEntry == \E j \in 1..Len(allBrands) : allBrands[j].name = LOREAL

KnownSubCategories == {"Fragrances", "Cosmetics", "Skincare"}

\* C11: when a record named L'Oréal exists, a record whose parent_brand is
\* L'Oréal and whose category is Fragrances, Cosmetics or Skincare is one leaf
\* under root -> L'Oréal -> that sub-category, and no leaf under a top-level
\* category.
C11_SubCategoryPlacement ==
    radialSvg =>
        LET nodes == Drawn(radialData)
        IN  \A i \in 1..Len(allBrands) :
                (/\ HasParentEntry
                 /\ allBrands[i].parent_brand = LOREAL
                 /\ allBrands[i].category \in KnownSubCategories) =>
                    /\ Cardinality(LeavesOfRecord(nodes, i)) = 1
                    /\ \A p \in LeavesOfRecord(nodes, i) :
                          /\ Len(p) = 3
                          /\ nodes[SubSeq(p, 1, 1)].nodeType = "loreal_parent"
                          /\ nodes[SubSeq(p, 1, 1)].name = LOREAL
                          /\ nodes[ParentPath(p)].nodeType = "category"
                          /\ nodes[ParentPath(p)].name = allBrands[i].category

\* C11 witness: a L'Oréal brand sits under the sub-category Cosmetics of the
\* parent entity while a top-level category named Cosmetics exists as well.
C11_Witness ==
    LET nodes == Drawn(radialData)
    IN  /\ radialSvg
        /\ \E p \in BrandLeaves(nodes) :
              /\ Len(p) = 3
              /\ allBrands[nodes[p].idx].parent_brand = LOREAL
              /\ \E q \in DOMAIN nodes :
                    /\ Len(q) = 1
                    /\ nodes[q].nodeType = "category"
                    /\ nodes[q].name = nodes[ParentPath(p)].name

\* C12 as stated: every record with no category is a leaf under a category
\* node named 'Uncategorized', whether it is a direct brand or a brand of the
\* parent entity.
C12_Uncategorized ==
    radialSvg =>
        LET nodes == Drawn(radialData)
        IN  \A i \in 1..Len(allBrands) :
                allBrands[i].category = undefined =>
                    \E p \in LeavesOfRecord(nodes, i) :
                        /\ nodes[ParentPath(p)].nodeType = "category"
                        /\ nodes[ParentPath(p)].name = "Uncategorized"

\* the list without the record at position i
RemoveAt(list, i) ==
    [j \in 1..(Len(list) - 1) |-> IF j < i THEN list[j] ELSE list[j + 1]]

UnknownSubCategory(i) ==
    /\ allBrands[i].parent_brand = LOREAL
    /\ allBrands[i].category \notin KnownSubCategories

ReportedAndLeftOut(nodes, i) ==
    /\ \E w \in console : w.level = "warn" /\ w.name = allBrands[i].name
    /\ LeavesOfRecord(nodes, i) = {}
    /\ LET without == prepareRadialData(RemoveAt(allBrands, i))
       IN  Content(without.root, without.brands) = Content(radialData, allBrands)

\* C13 as stated: a record whose parent_brand is L'Oréal and whose category
\* is not a known sub-category is reported with a warning naming it and left
\* out of the tree, and the tree is the one built without that record.
C13_UnknownSubCategoryAsStated ==
    radialSvg =>
        LET nodes == Drawn(radialData)
        IN  \A i \in 1..Len(allBrands) : UnknownSubCategory(i) => ReportedAndLeftOut(nodes, i)

\* C13 amended: when a record named L'Oréal exists, a record whose
\* parent_brand is L'Oréal and whose category is not a known sub-category is
\* reported with a warning naming it and left out of the tree, and the tree
\* is the one built without that record.
C13_UnknownSubCategory ==
    (radialSvg /\ HasParentEntry) =>
        LET nodes == Drawn(radialData)
        IN  \A i \in 1..Len(allBrands) : UnknownSubCategory(i) => ReportedAndLeftOut(nodes, i)

\* C13 witness: with the parent entity present, a brand of it with the
\* category 'Fashion' has been warned about while another brand is a leaf.
C13_Witness ==
    /\ radialSvg
    /\ HasParentEntry
    /\ \E i \in 1..Len(allBrands) :
          /\ UnknownSubCategory(i)
          /\ allBrands[i].category = "Fashion"
          /\ \E w \in console : w.name = allBrands[i].name
    /\ BrandLeaves(Drawn(radialData)) # {}

\* C14 as stated: after prepareRadialData every record of the brand list is
\* as it was loaded (no field of any record differs).
C14_InputUnchanged ==
    \A i \in 1..Len(allBrands) : allBrands[i] \in BrandRecords

\* C15: a second run of prepareRadialData and of the layout on the brand
\* list gives the tree and the coordinates of the first run and leaves the
\* list as it is, and a second run of updateRadialView with the same filtered
\* list changes nothing (visible set, 'filtered' marks, link opacities).
C15_Determinism ==
    radialSvg =>
        LET again == prepareRadialData(allBrands)
            twice == updateRadialView(Cur, lastFiltered)
        IN  /\ again.root = radialData
            /\ again.brands = allBrands
            /\ ClusterLayout(again.root, svgSize) = layout
            /\ twice.visibleNodeNames = visibleNodeNames
            /\ twice.filteredNodes = filteredNodes
            /\ twice.linkOpacity = linkOpacity
            /\ twice = Cur

\* C15 witness: the first run has marked records of the list and has put
\* brands under the parent entity, and the filter hides some node.
C15_Witness ==
    /\ radialSvg
    /\ \E i \in 1..Len(allBrands) :
          allBrands[i].nodeType = "brand" /\ allBrands[i].parent_brand = LOREAL
    /\ \E p \in DOMAIN linkOpacity : Len(p) = 3
    /\ filteredNodes # {}
    /\ lastFiltered # << >>

MatchedBy(search, region) ==
    SelectSeq(Indices(allBrands),
              LAMBDA i : filterBrandsMatch(allBrands[i], SearchValue(search), RegionValue(region)))

\* C16: for the filter state in force and any other filter state over the
\* same brand list, if the records matched by one are among those matched by
\* the other, the visible-name set of the first is within that of the second.
C16_FilterMonotone ==
    radialSvg =>
        \A search \in SearchInputs, region \in RegionOptions :
            LET other == MatchedBy(search, region)
                seen == updateRadialView(Cur, other).visibleNodeNames
            IN  /\ Range(lastFiltered) \subseteq Range(other) => visibleNodeNames \subseteq seen
                /\ Range(other) \subseteq Range(lastFiltered) => seen \subseteq visibleNodeNames

\* C16 witness: the filter in force matches some record, and another filter
\* state matches strictly more records and shows strictly more names.
C16_Witness ==
    /\ radialSvg
    /\ lastFiltered # << >>
    /\ \E search \in SearchInputs, region \in RegionOptions :
          LET other == MatchedBy(search, region)
          IN  /\ Range(lastFiltered) \subseteq Range(other)
              /\ Range(other) # Range(lastFiltered)
              /\ visibleNodeNames \subseteq VisibleNodeNames(allBrands, other)
              /\ visibleNodeNames # VisibleNodeNames(allBrands, other)

\* C17 as stated: the angles of consecutive leaves, in traversal order,
\* differ by 360 / leafCount, whether or not the two leaves share a parent.
C17_AngularSpacing ==
    radialSvg =>
        LET leaves == LeafPaths(radialData, << >>)
            at == layout
        IN  \A k \in 2..Len(leaves) :
                FracSub(at[leaves[k]].x, at[leaves[k - 1]].x) = Frac(360, Len(leaves))

FracLeq(a, b) == a[1] * b[2] <= b[1] * a[2]

\* C18: the root is at radius 0, and every brand leaf, at depth 2 or 3, is at
\* one radius, the largest of the layout (the base radius of the container).
C18_Radii ==
    radialSvg =>
        LET leaves == BrandLeaves(Drawn(radialData))
            at == layout
        IN  /\ at[<< >>].y = <<0, 1>>
            /\ \A p \in leaves :
                  /\ \A q \in DOMAIN at : FracLeq(at[q].y, at[p].y)
                  /\ \E rect \in ContainerRects : at[p].y = BaseRadius(SvgSize(rect))

\* C18 witness: a layout with a brand leaf at depth 2 and one at depth 3, and
\* an inner node strictly between the centre and the rim.
C18_Witness ==
    /\ radialSvg
    /\ \E p, q \in BrandLeaves(Drawn(radialData)) : Len(p) = 2 /\ Len(q) = 3
    /\ LET at == layout
       IN  \E q \in DOMAIN at :
              /\ ~FracLeq(at[q].y, <<0, 1>>)
              /\ \E p \in DOMAIN at : at[p].y # at[q].y /\ FracLeq(at[q].y, at[p].y)

\* C19 as stated: the stored rotation stays within one turn of 360 degrees.
C19_RotationWraps == Abs(rotation) < 360

\* C20: with an empty brand list the tree is the root alone, laid out at
\* angle 180 and radius 0, the build warns about nothing, no node is marked, and the view
\* ends in the empty state: one 'no results' message and a dimmed svg.
C20_EmptyList ==
    (radialSvg /\ allBrands = << >>) =>
        /\ radialData = EmptyTree
        /\ layout = (<< >> :> [x |-> <<180, 1>>, y |-> <<0, 1>>])
        /\ lastFiltered = << >>
        /\ filteredNodes = {}
        /\ \A w \in console : w.level # "warn"
        /\ noResultsMsgs = 1
        /\ svgOpacity = 2

\* C20 witness: the empty list has been drawn, and a filter is typed.
C20_Witness ==
    /\ radialSvg
    /\ allBrands = << >>
    /\ searchInput # ""
    /\ noResultsMsgs = 1

\* C21: once loading has failed and the error block with its 'Try Again'
\* button is in the document, it stays there, whatever runs afterwards (the
\* loading-screen timer, the animation frame, a resize, a filter change).
C21_ErrorStays ==
    [][(fetchState = "failed" /\ errorIn # "none") => errorIn' # "none"]_vars

\* C22: once the diagram is initialised, after every updateRadialView the
\* radial view holds exactly one 'no results' message and the svg is dimmed
\* to 0.2 if the list passed was empty, and holds no message with the svg
\* at opacity 1 otherwise; there is never more than one message.
C22_NoResultsMessage ==
    radialSvg =>
        /\ noResultsMsgs <= 1
        /\ (Len(lastFiltered) = 0 => noResultsMsgs = 1 /\ svgOpacity = 2)
        /\ (Len(lastFiltered) # 0 => noResultsMsgs = 0 /\ svgOpacity = 10)

\* C22 witness: a loaded, non-empty list of which the filter matches nothing:
\* the message is there (once) although brands exist.
C22_Witness ==
    /\ radialSvg
    /\ fetchState = "ok"
    /\ Len(allBrands) > 0
    /\ searchInput = "zzz"
    /\ Len(lastFiltered) = 0
    /\ noResultsMsgs = 1
    /\ svgOpacity = 2

\* the tooltip is pinned at the node at path p: the last click handler to pin
\* it placed it at that node, and it has not been unpinned since
PinnedAt(p) == tooltipPinned /\ tooltipPos = <<"node", p>>

\* C23: a click on a non-root node pins the tooltip (visible and pinned); a
\* click on the node the tooltip is pinned at unpins and hides it; a click on
\* the background unpins it; while it is pinned, no mouseenter, mousemove or
\* mouseleave changes its content, position or visibility.
C23_TooltipPinning ==
    [][ /\ \A p \in NodePaths :
            NodeClick(p) =>
                IF PinnedAt(p)
                THEN ~tooltipPinned' /\ ~tooltipVisible'
                ELSE tooltipPinned' /\ tooltipVisible'
        /\ BackgroundClick => ~tooltipPinned'
        /\ ( /\ tooltipPinned
             /\ \/ \E p \in NodePaths, at \in PointerPositions : MouseEnter(p, at)
                \/ \E at \in PointerPositions : MouseMove(at)
                \/ MouseLeave )
           => UNCHANGED tipVars ]_vars

\* C29: whenever the tooltip is pinned it is visible, and exactly one node
\* of the diagram on the page carries the 'tooltip-pinned-source' mark.
C29_PinnedHasSource ==
    tooltipPinned =>
        /\ tooltipVisible
        /\ Cardinality(pinnedSource \cap DOMAIN Drawn(radialData)) = 1

\* the state initializeRadialView writes
DiagramState == <<radialSvg, radialData, svgSize, filteredNodes, linkOpacity,
                  visibleNodeNames, lastFiltered, allBrands, console>>

\* C24: the debounced function is invoked only when `wait` has elapsed since
\* the last call, once for the calls made since the previous invocation and
\* with the arguments of the last of them; as long as calls are unanswered
\* exactly one timer, carrying the last call's arguments, is pending; and
\* the invocation re-initialises the radial view only if the view is radial
\* and initialised at that moment.
C24_Debounce ==
    /\ [][ resizeLog'.invocations # resizeLog.invocations =>
              /\ resizeLog.sinceCall >= ResizeWait
              /\ resizeLog.unanswered > 0
              /\ resizeLog'.invocations = resizeLog.invocations + 1
              /\ resizeLog'.invokedWith = resizeLog.lastArgs
              /\ (~(currentView = "radial" /\ radialSvg) => UNCHANGED DiagramState) ]_vars
    /\ [](resizeLog.unanswered > 0 =>
             /\ Cardinality(timers) = 1
             /\ \A t \in timers : <<t.args>> = resizeLog.lastArgs)
    /\ [](resizeLog.unanswered = 0 => timers = {})

\* C24 witness: a burst of at least two calls has been answered by one
\* invocation, with the last call's box, and the diagram has that size.
C24_Witness ==
    /\ resizeLog.calls >= 2
    /\ resizeLog.invocations = 1
    /\ resizeLog.unanswered = 0
    /\ resizeLog.invokedWith = <<containerRect>>
    /\ containerRect # [width |-> 1000, height |-> 700]
    /\ radialSvg
    /\ svgSize = SvgSize(containerRect)

\* nothing of the page load is still to run, and the list has arrived
LoadSettled ==
    /\ ~startTimer
    /\ hideTimers = 0
    /\ errTimers = 0
    /\ rafPending = 0
    /\ fetchState = "ok"

C26_MissingParentEntry ==
    LET nodes == Drawn(radialData)
    IN  (radialSvg /\ ~HasParentEntry) =>
            /\ \A p \in DOMAIN nodes : nodes[p].nodeType # "loreal_parent"
            /\ \A i \in 1..Len(allBrands) :
                  allBrands[i].parent_brand = LOREAL =>
                      /\ Cardinality(LeavesOfRecord(nodes, i)) = 1
                      /\ \A p \in LeavesOfRecord(nodes, i) :
                            /\ Len(p) = 2
                            /\ nodes[ParentPath(p)].nodeType = "category"
                            /\ ~nodes[ParentPath(p)].isLorealCategory
                            /\ nodes[ParentPath(p)].name =
                                  (IF allBrands[i].category = undefined
                                   THEN "Uncategorized" ELSE allBrands[i].category)

\* C26 witness: no record named L'Oréal, one L'Oréal brand with a category
\* and one without, both drawn as leaves.
C26_Witness ==
    LET nodes == Drawn(radialData)
    IN  /\ radialSvg
        /\ ~HasParentEntry
        /\ \E i, j \in 1..Len(allBrands) :
              /\ allBrands[i].parent_brand = LOREAL
              /\ allBrands[i].category = undefined
              /\ allBrands[j].parent_brand = LOREAL
              /\ allBrands[j].category = "Fashion"
              /\ LeavesOfRecord(nodes, i) # {}
              /\ LeavesOfRecord(nodes, j) # {}

\* the records matching the filter that are drawn as brand leaves under the
\* node at path c
MatchingLeavesUnder(nodes, c) ==
    { p \in BrandLeaves(nodes) :
        /\ Len(p) > Len(c)
        /\ SubSeq(p, 1, Len(c)) = c
        /\ \E k \in 1..Len(lastFiltered) : lastFiltered[k] = nodes[p].idx }

\* C27: after the variant's updateRadialView, a category node (top-level or
\* sub-category of L'Oréal) with at least one matching brand under it is in the
\* visible set, is not marked 'filtered', and its link to each matching brand
\* that is its child has full opacity.
C27_CategoryVisible ==
    LET nodes == Drawn(radialData)
    IN  (radialSvg /\ walk.pc = "idle") =>
            \A c \in DOMAIN nodes :
                (nodes[c].nodeType = "category" /\ MatchingLeavesUnder(nodes, c) # {}) =>
                    /\ nodes[c].name \in visibleNodeNames
                    /\ c \notin filteredNodes
                    /\ \A p \in MatchingLeavesUnder(nodes, c) :
                           Len(p) = Len(c) + 1 => linkOpacity[p] = 10

\* C28: the variant's updateRadialView terminates: whenever it is running it
\* comes to its end.
C28_WalkTerminates ==
    (walk.pc # "idle") ~> (walk.pc = "idle")

\* the records of allBrands a copy of the filter predicate selects
Selected(match(_, _, _), search, region) ==
    SelectSeq(Indices(allBrands),
              LAMBDA i : match(allBrands[i], SearchValue(search), RegionValue(region)))

\* C30: the three copies of the filter predicate (filterBrands, switchView,
\* the end of initializeRadialView) select the same records: for every record,
\* with or without name, description and tagline, and every search and region
\* input, present or absent, the three agree; and the list shown in the list
\* view and the list the drawn diagram was last updated with are both the
\* records filterBrands selects for the current inputs.
C30_FilterCopiesAgree ==
    /\ \A s \in SearchElements, r \in RegionElements :
          LET searchValue == SearchValueOf(s)
              regionValue == RegionValueOf(r)
          IN  \A brand \in FilterRecords :
                LET selected == filterBrandsMatch(brand, searchValue, regionValue)
                IN  /\ selected = switchViewMatch(brand, searchValue, regionValue)
                    /\ selected = initialFilterMatch(brand, searchValue, regionValue)
    /\ currentView = "list" =>
          listItems = Selected(filterBrandsMatch, searchInput, regionFilter)
    /\ (currentView = "radial" /\ radialSvg /\ rafPending = 0) =>
          lastFiltered = Selected(filterBrandsMatch, searchInput, regionFilter)

\* the list view, opened by its button, shows a record the search text
\* matches by its description or tagline only, and the diagram was last
\* updated with the same list
C30_Witness ==
    /\ currentView = "list"
    /\ radialSvg
    /\ searchInput = "Er"
    /\ listItems # << >>
    /\ \E k \in 1..Len(listItems) :
          ~FieldIncludes(allBrands[listItems[k]].name, SearchValue(searchInput))
    /\ lastFiltered = listItems

====
